---- MODULE Spec2Model ----
(***************************************************************************)
(* cli-menu-kit: region-based terminal renderer (ScreenManager), virtual   *)
(* scroll window calculation (calculateVirtualScroll).                     *)
(*                                                                         *)
(* Strings are sequences of UTF-16 code units, one unit per element, so    *)
(* that String.length, String.slice and the SGR regular expression of      *)
(* fitText act on the same units as in the source.                         *)
(***************************************************************************)
EXTENDS Integers, Sequences, FiniteSets, TLC

VARIABLES
    regions,      \* ScreenManager.regions : Map<string, Rect>
    cache,        \* ScreenManager.cache   : Map<string, string[]>
    isAltScreen,  \* ScreenManager.isAltScreen
    term,         \* the terminal behind process.stdout
    out,          \* what the last call wrote to process.stdout, in order
    last,         \* the last call: name, arguments, whether it threw
    before,       \* the call before the last one: name, id, whether it threw
    ncalls,       \* number of calls made so far
    vsIn,         \* VirtualScrollOptions handed to calculateVirtualScroll
    vsOut,        \* its VirtualScrollResult (or the thrown error)
    entries,      \* HintManager.entries : Map<string, HintEntry>, in insertion order
    clock,        \* what Date.now() returned last
    emitted,      \* payloads of the 'change' events the last HintManager call emitted
    hmLast,       \* the last HintManager call: name and token
    hmCalls,      \* number of HintManager calls made so far
    clIn,         \* the arguments of a computeLayout call
    clOut,        \* its Layout
    stdout,       \* process.stdout.rows / process.stdout.columns (0: undefined)
    config,       \* the PageLayoutConfigV2 given to renderPageV2
    layout,       \* the layout renderPageV2 computed (line 96)
    pc,           \* position of renderPageV2 and of the handler that is running
    ret,          \* where the running handler continues after a change event
    idx,          \* position of the current loop in the component list
    nidx,         \* the 'change' listener that runs next
    selectedIndex,  \* selectedIndex of the radio menu component
    hintListeners,  \* the 'change' listeners on hintManager: the config each closes over
    log,          \* what renderPageV2 has done so far, in order
    nevents,      \* number of key, resize and outside hint events so far
    lastKey,      \* the key the radio menu's onKey got last
    result,       \* the RadioMenuResult given to onResult
    rs,           \* the split radio menu: its RadioMenuState, listener and raw mode
    cb,           \* a checkbox menu: its configuration, selection, cursor and window
    steady        \* history: the manager was only used in the alternate screen,
                  \* without exit or reset, and no id was registered twice

vars == <<regions, cache, isAltScreen, term, out, last, before, ncalls, vsIn, vsOut,
          entries, clock, emitted, hmLast, hmCalls, clIn, clOut, stdout, config,
          layout, pc, ret, idx, nidx, selectedIndex, hintListeners, log, nevents,
          lastKey, result, rs, cb, steady>>

smVars == <<regions, cache, isAltScreen, term, out, last, before, ncalls, steady>>
vsVars == <<vsIn, vsOut>>
hmVars == <<entries, clock, emitted, hmLast, hmCalls>>
clVars == <<clIn, clOut>>
kyVars == <<lastKey, result>>
mnVars == <<rs, cb>>
sessionVars == <<stdout, config, layout, pc, ret, idx, nidx, selectedIndex,
                 hintListeners, log, nevents, lastKey, result>>
pgVars == <<stdout, config, layout, pc, ret, idx, nidx, selectedIndex, hintListeners,
            log, nevents, lastKey, result, rs, cb>>

Min(a, b) == IF a < b THEN a ELSE b

(***************************************************************************)
(* Strings                                                                 *)
(***************************************************************************)
ESC == "ESC"

\* colors.reset = '\x1b[0m'
SgrReset == <<ESC, "[", "0", "m">>

Spaces(n) == [i \in 1..n |-> " "]

IsSgrParam(u) == u \in {"0", "1", "2", "3", "4", "5", "6", "7", "8", "9", ";"}

\* end of the run [0-9;]* that starts at position i (i - 1 when it is empty)
RECURSIVE ParamRunEnd(_, _)
ParamRunEnd(s, i) ==
    IF i <= Len(s) /\ IsSgrParam(s[i]) THEN ParamRunEnd(s, i + 1) ELSE i - 1

\* /\x1b\[[0-9;]*m/ matched at position i: index of the closing m, 0 if no match
SgrMatchEnd(s, i) ==
    IF i + 1 <= Len(s) /\ s[i] = ESC /\ s[i + 1] = "["
    THEN LET e == ParamRunEnd(s, i + 2) + 1
         IN  IF e <= Len(s) /\ s[e] = "m" THEN e ELSE 0
    ELSE 0

RECURSIVE StripFrom(_, _)
StripFrom(s, i) ==
    IF i > Len(s) THEN <<>>
    ELSE LET e == SgrMatchEnd(s, i)
         IN  IF e > 0 THEN StripFrom(s, e + 1)
             ELSE <<s[i]>> \o StripFrom(s, i + 1)

\* text.replace(/\x1b\[[0-9;]*m/g, '')
StripAnsi(s) == StripFrom(s, 1)

\* length of the match of /^(\x1b\[[0-9;]*m)*/ that starts at position i
RECURSIVE AnsiPrefixEnd(_, _)
AnsiPrefixEnd(s, i) ==
    LET e == SgrMatchEnd(s, i)
    IN  IF e > 0 THEN AnsiPrefixEnd(s, e + 1) ELSE i - 1

\* String.prototype.slice(from) and slice(0, n), n >= 0
SliceFrom(s, from) == SubSeq(s, from + 1, Len(s))
SliceTo(s, n) == SubSeq(s, 1, Min(n, Len(s)))

\* fitText without the padding branch
fitText_NoPad(text, width) ==
    LET len == Len(StripAnsi(text))
    IN  IF len <= width THEN text
        ELSE LET prefixLen == AnsiPrefixEnd(text, 1)
             IN  SliceTo(text, prefixLen) \o SliceTo(SliceFrom(text, prefixLen), width)

fitText(text, width) ==
    LET len == Len(StripAnsi(text))
    IN  IF len = width THEN text
        ELSE IF len < width THEN text \o Spaces(width - len)
        ELSE LET prefixLen == AnsiPrefixEnd(text, 1)
                 prefix    == SliceTo(text, prefixLen)
                 content   == SliceFrom(text, prefixLen)
             IN  prefix \o SliceTo(content, width)

(***************************************************************************)
(* Inputs of the ScreenManager model                                       *)
(***************************************************************************)
MaxLines == 2
MaxCalls == 4

RegionIds == {"main", "hints"}

Rect(t, l, w, h) == [top |-> t, left |-> l, width |-> w, height |-> h]

\* RectA and RectB share screen row 2, RectC is disjoint from both
RectA == Rect(1, 1, 5, 2)
RectB == Rect(2, 1, 5, 1)
RectC == Rect(3, 2, 2, 1)
Rects == {RectA, RectB, RectC}

ScreenRows == 3
ScreenCols == 5

\* LinePlain is padded at width 5 and cut at width 2; LineMixed carries a
\* style sequence after its first visible character and is longer than 5
LinePlain  == <<"a", "b", "c">>
LineMixed  == <<"a">> \o SgrReset \o <<"b", "c", "d", "e", "f">>
LineSet == {LinePlain, LineMixed}

RECURSIVE SeqsUpTo(_, _)
SeqsUpTo(S, n) ==
    IF n = 0 THEN {<<>>}
    ELSE LET shorter == SeqsUpTo(S, n - 1)
         IN  shorter \cup {Append(q, x) : q \in {r \in shorter : Len(r) = n - 1}, x \in S}

LineArrays == SeqsUpTo(LineSet, MaxLines)

(***************************************************************************)
(* The terminal behind process.stdout                                      *)
(***************************************************************************)
TermOp(k, r, c, s) == [k |-> k, row |-> r, col |-> c, s |-> s]

MoveTo(r, c)  == TermOp("moveTo", r, c, <<>>)      \* CSI row ; col H
Write(s)      == TermOp("write", 0, 0, s)
AltEnable     == TermOp("altEnable", 0, 0, <<>>)   \* CSI ?1049h
AltDisable    == TermOp("altDisable", 0, 0, <<>>)  \* CSI ?1049l
CursorHide    == TermOp("cursorHide", 0, 0, <<>>)  \* CSI ?25l
CursorShow    == TermOp("cursorShow", 0, 0, <<>>)  \* CSI ?25h

BlankGrid == [r \in 1..ScreenRows |-> [c \in 1..ScreenCols |-> " "]]

\* position of the first ESC of s, Len(s) + 1 if there is none
RECURSIVE FirstEsc(_, _)
FirstEsc(s, i) ==
    IF i > Len(s) \/ s[i] = ESC THEN i ELSE FirstEsc(s, i + 1)

\* the cells a written string occupies: SGR sequences take no cell, and an
\* unterminated control sequence at the end of the string prints nothing
\* (the next write starts with ESC, which cancels it)
TermVisible(s) ==
    LET t == StripAnsi(s) IN SubSeq(t, 1, FirstEsc(t, 1) - 1)

PutCells(g, r, c, chars) ==
    IF r \in 1..ScreenRows
    THEN [g EXCEPT ![r] = [x \in 1..ScreenCols |->
              IF x >= c /\ x < c + Len(chars) THEN chars[x - c + 1] ELSE g[r][x]]]
    ELSE g

\* one terminal operation applied to the terminal state t with the cursor at pos
TermStep(t, pos, op) ==
    IF op.k = "moveTo" THEN [t |-> t, pos |-> <<op.row, op.col>>]
    ELSE IF op.k = "write" THEN
        LET chars == TermVisible(op.s)
        IN  [t |-> IF t.alt
                   THEN [t EXCEPT !.altbuf = PutCells(t.altbuf, pos[1], pos[2], chars)]
                   ELSE [t EXCEPT !.main = PutCells(t.main, pos[1], pos[2], chars)],
             pos |-> <<pos[1], pos[2] + Len(chars)>>]
    ELSE IF op.k = "altEnable" THEN
        [t |-> [t EXCEPT !.alt = TRUE, !.altbuf = BlankGrid], pos |-> pos]
    ELSE IF op.k = "altDisable" THEN
        [t |-> [t EXCEPT !.alt = FALSE, !.altbuf = BlankGrid], pos |-> pos]
    ELSE IF op.k = "cursorHide" THEN
        [t |-> [t EXCEPT !.cursorVisible = FALSE], pos |-> pos]
    ELSE
        [t |-> [t EXCEPT !.cursorVisible = TRUE], pos |-> pos]

RECURSIVE TermRun(_, _, _)
TermRun(t, pos, ops) ==
    IF ops = <<>> THEN t
    ELSE LET n == TermStep(t, pos, Head(ops))
         IN  TermRun(n.t, n.pos, Tail(ops))

\* every write of ScreenManager follows a moveTo of the same call
TermApply(t, ops) == TermRun(t, <<0, 0>>, ops)

\* the grid the user sees
Shown(t) == IF t.alt THEN t.altbuf ELSE t.main

\* the cells of screen row r from column c, w cells wide
RowCells(g, r, c, w) == [k \in 1..w |-> g[r][c + k - 1]]

(***************************************************************************)
(* ScreenManager                                                           *)
(***************************************************************************)
EmptyMap == [i \in {} |-> {}]

MapSet(m, k, v) == [i \in DOMAIN m \cup {k} |-> IF i = k THEN v ELSE m[i]]

NoRect == Rect(0, 0, 0, 0)

Call(op, id, lines, rect, err) ==
    [op |-> op, id |-> id, lines |-> lines, rect |-> rect, err |-> err]

Brief(c) == [op |-> c.op, id |-> c.id, err |-> c.err]

\* next = Array.from({length: rect.height}, (_, i) => fitText(lines[i] ?? '', rect.width))
NormLines(lines, rect) ==
    [i \in 1..rect.height |->
        fitText(IF i <= Len(lines) THEN lines[i] ELSE <<>>, rect.width)]

\* the loop of renderRegion without the comparison against prev
RECURSIVE RenderWrites_NoDiff(_, _, _, _)
RenderWrites_NoDiff(rect, prev, next, i) ==
    IF i > rect.height THEN <<>>
    ELSE <<MoveTo(rect.top + i - 1, rect.left), Write(next[i])>>
         \o RenderWrites_NoDiff(rect, prev, next, i + 1)

\* the loop of renderRegion over offsets from..height: moveTo + write for each
\* line that differs from prev (prev[i] is undefined beyond its length)
RECURSIVE RenderWrites(_, _, _, _)
RenderWrites(rect, prev, next, i) ==
    IF i > rect.height THEN <<>>
    ELSE IF i <= Len(prev) /\ next[i] = prev[i]
         THEN RenderWrites(rect, prev, next, i + 1)
         ELSE <<MoveTo(rect.top + i - 1, rect.left), Write(next[i])>>
              \o RenderWrites(rect, prev, next, i + 1)

\* clearRegion that only resets the cache
ClearWrites_None(rect, i) == <<>>

RECURSIVE ClearWrites(_, _)
ClearWrites(rect, i) ==
    IF i > rect.height THEN <<>>
    ELSE <<MoveTo(rect.top + i - 1, rect.left), Write(Spaces(rect.width))>>
         \o ClearWrites(rect, i + 1)

\* this.cache.get(id) ?? []
CacheOrEmpty(id) == IF id \in DOMAIN cache THEN cache[id] ELSE <<>>

HintCall(op, token) == [op |-> op, token |-> token]

\* a HintManager right after construction
NewHintManager ==
    /\ entries = <<>>
    /\ clock = 0
    /\ emitted = <<>>
    /\ hmLast = HintCall("new", "")
    /\ hmCalls = 0

NoLayout == [header |-> NoRect, main |-> NoRect, footerHints |-> NoRect,
             footerPrompt |-> NoRect]

NoConfig == [header |-> <<>>, mainArea |-> <<>>, footer |-> <<>>, options |-> <<>>,
             allowNumberKeys |-> FALSE, allowLetterKeys |-> FALSE]

NoSize == [rows |-> 0, columns |-> 0]

\* onResult has not been called
NoMenuResult == [value |-> "", index |-> 0, given |-> FALSE]

\* no renderPageV2 call and no computeLayout call has been made
\* no split radio menu has been rendered
NoRS == [pc |-> "idle", options |-> <<>>, defaultIndex |-> 0, selectedIndex |-> 0,
         preserveOnSelect |-> FALSE, listening |-> FALSE, isRawMode |-> FALSE,
         key |-> ""]

NoWindow == [scrolled |-> FALSE, visibleStart |-> 0, visibleEnd |-> 0,
             currentLines |-> 0, written |-> 0]

\* no checkbox menu is shown
NoCB == [pc |-> "idle", variant |-> "", options |-> <<>>, data |-> 0,
         maxSelections |-> 0, minSelections |-> 0, defaultSelected |-> {},
         selected |-> {}, cursorIndex |-> 0, listening |-> FALSE,
         isRawMode |-> FALSE, key |-> "", was |-> {}, win |-> NoWindow]

\* no page is shown and computeLayout has not been called
NoSession ==
    /\ clIn = [rows |-> 0, cols |-> 0]
    /\ clOut = NoLayout
    /\ stdout = NoSize
    /\ config = NoConfig
    /\ layout = NoLayout
    /\ pc = "idle"
    /\ ret = "idle"
    /\ idx = 0
    /\ nidx = 0
    /\ selectedIndex = 0
    /\ hintListeners = <<>>
    /\ log = <<>>
    /\ nevents = 0
    /\ lastKey = ""
    /\ result = NoMenuResult

NoPage ==
    /\ NoSession
    /\ rs = NoRS
    /\ cb = NoCB

\* a ScreenManager right after construction, nothing called yet
NewScreenManager ==
    /\ regions = EmptyMap
    /\ cache = EmptyMap
    /\ isAltScreen = FALSE
    /\ term = [alt |-> FALSE, cursorVisible |-> TRUE,
               main |-> BlankGrid, altbuf |-> BlankGrid]
    /\ out = <<>>
    /\ last = Call("new", "", <<>>, NoRect, FALSE)
    /\ before = Brief(Call("new", "", <<>>, NoRect, FALSE))
    /\ ncalls = 0
    /\ steady = TRUE

\* enter without the isAltScreen guard
enter_Unguarded ==
    /\ last' = Call("enter", "", <<>>, NoRect, FALSE)
    /\ out' = <<AltEnable, CursorHide>>
    /\ isAltScreen' = TRUE
    /\ term' = TermApply(term, out')
    /\ UNCHANGED <<regions, cache>>

enter ==
    /\ last' = Call("enter", "", <<>>, NoRect, FALSE)
    /\ IF ~isAltScreen
       THEN /\ out' = <<AltEnable, CursorHide>>
            /\ isAltScreen' = TRUE
       ELSE /\ out' = <<>>
            /\ UNCHANGED isAltScreen
    /\ term' = TermApply(term, out')
    /\ UNCHANGED <<regions, cache>>

exit ==
    /\ last' = Call("exit", "", <<>>, NoRect, FALSE)
    /\ IF isAltScreen
       THEN /\ out' = <<CursorShow, AltDisable>>
            /\ isAltScreen' = FALSE
       ELSE /\ out' = <<>>
            /\ UNCHANGED isAltScreen
    /\ term' = TermApply(term, out')
    /\ UNCHANGED <<regions, cache>>

registerRegion(id, rect) ==
    /\ last' = Call("registerRegion", id, <<>>, rect, FALSE)
    /\ regions' = MapSet(regions, id, rect)
    /\ out' = <<>>
    /\ UNCHANGED <<cache, isAltScreen, term>>

\* renderRegion that creates the cache entry before it looks up the region
renderRegion_LateCheck(id, lines) ==
    IF id \notin DOMAIN regions
    THEN /\ last' = Call("renderRegion", id, lines, NoRect, TRUE)
         /\ out' = <<>>
         /\ cache' = MapSet(cache, id, CacheOrEmpty(id))
         /\ UNCHANGED <<regions, isAltScreen, term>>
    ELSE LET rect == regions[id]
             next == NormLines(lines, rect)
         IN  /\ last' = Call("renderRegion", id, lines, rect, FALSE)
             /\ out' = RenderWrites(rect, CacheOrEmpty(id), next, 1)
             /\ term' = TermApply(term, out')
             /\ cache' = MapSet(cache, id, next)
             /\ UNCHANGED <<regions, isAltScreen>>

renderRegion(id, lines) ==
    IF id \notin DOMAIN regions
    THEN /\ last' = Call("renderRegion", id, lines, NoRect, TRUE)
         /\ out' = <<>>
         /\ UNCHANGED <<regions, cache, isAltScreen, term>>
    ELSE LET rect == regions[id]
             prev == CacheOrEmpty(id)
             next == NormLines(lines, rect)
         IN  /\ last' = Call("renderRegion", id, lines, rect, FALSE)
             /\ out' = RenderWrites(rect, prev, next, 1)
             /\ term' = TermApply(term, out')
             /\ cache' = MapSet(cache, id, next)
             /\ UNCHANGED <<regions, isAltScreen>>

clearRegion(id) ==
    IF id \notin DOMAIN regions
    THEN /\ last' = Call("clearRegion", id, <<>>, NoRect, TRUE)
         /\ out' = <<>>
         /\ UNCHANGED <<regions, cache, isAltScreen, term>>
    ELSE LET rect == regions[id]
         IN  /\ last' = Call("clearRegion", id, <<>>, rect, FALSE)
             /\ out' = ClearWrites(rect, 1)
             /\ term' = TermApply(term, out')
             /\ cache' = MapSet(cache, id, [i \in 1..rect.height |-> Spaces(rect.width)])
             /\ UNCHANGED <<regions, isAltScreen>>

\* invalidateAll that forgets to clear the cache
invalidateAll_KeepsCache ==
    /\ last' = Call("invalidateAll", "", <<>>, NoRect, FALSE)
    /\ out' = <<>>
    /\ UNCHANGED <<cache, regions, isAltScreen, term>>

invalidateAll ==
    /\ last' = Call("invalidateAll", "", <<>>, NoRect, FALSE)
    /\ cache' = EmptyMap
    /\ out' = <<>>
    /\ UNCHANGED <<regions, isAltScreen, term>>

reset ==
    /\ last' = Call("reset", "", <<>>, NoRect, FALSE)
    /\ cache' = EmptyMap
    /\ regions' = EmptyMap
    /\ out' = <<>>
    /\ UNCHANGED <<isAltScreen, term>>

\* the call c leaves the history steady
KeepsSteady(c) ==
    IF c.op \in {"exit", "reset"} THEN FALSE
    ELSE IF c.op = "registerRegion" THEN c.id \notin DOMAIN regions
    ELSE IF c.op \in {"renderRegion", "clearRegion"} THEN isAltScreen
    ELSE TRUE

\* one more call on the manager, while the call budget lasts
Counted ==
    /\ ncalls < MaxCalls
    /\ ncalls' = ncalls + 1
    /\ before' = Brief(last)
    /\ steady' = (steady /\ KeepsSteady(last'))
    /\ UNCHANGED <<vsVars, hmVars, clVars, pgVars>>

NextSM ==
    \/ enter /\ Counted
    \/ exit /\ Counted
    \/ \E id \in RegionIds, rect \in Rects : registerRegion(id, rect) /\ Counted
    \/ \E id \in RegionIds, lines \in LineArrays : renderRegion(id, lines) /\ Counted
    \/ \E id \in RegionIds : clearRegion(id) /\ Counted
    \/ invalidateAll /\ Counted
    \/ reset /\ Counted

NoVS == [items |-> <<>>, cursorIndex |-> 0, targetLines |-> 0]
NoResult == [visibleStart |-> 0, visibleEnd |-> 0, actualLines |-> 0,
             isScrolled |-> FALSE, hasItemsBefore |-> FALSE, hasItemsAfter |-> FALSE,
             error |-> FALSE, called |-> FALSE]

InitSM ==
    /\ NewScreenManager
    /\ NewHintManager
    /\ NoPage
    /\ vsIn = NoVS
    /\ vsOut = NoResult

SpecSM == InitSM /\ [][NextSM]_vars

(***************************************************************************)
(* calculateVirtualScroll                                                  *)
(*                                                                         *)
(* items is the sequence of line costs: items[i + 1] is what               *)
(* getItemLineCount(items[i], i) returns for the 0-based index i.          *)
(***************************************************************************)
MaxItems == 7
MaxCost == 2
MaxTarget == 6

getItemLineCount(items, index) == items[index + 1]

RECURSIVE SumFrom(_, _)
SumFrom(items, i) ==
    IF i > Len(items) THEN 0 ELSE items[i] + SumFrom(items, i + 1)

\* items.reduce((sum, item, idx) => sum + getItemLineCount(item, idx), 0)
estimatedTotalLines(items) == SumFrom(items, 1)

Window(s, e, lines) == [visibleStart |-> s, visibleEnd |-> e, currentLines |-> lines]

\* downward expansion without the test currentLines + nextLines <= targetLines
RECURSIVE ExpandDown_NoBudget(_, _, _)
ExpandDown_NoBudget(items, targetLines, w) ==
    IF w.visibleEnd < Len(items) /\ w.currentLines < targetLines
    THEN ExpandDown_NoBudget(items, targetLines,
             Window(w.visibleStart, w.visibleEnd + 1,
                    w.currentLines + getItemLineCount(items, w.visibleEnd)))
    ELSE w

\* while (visibleEnd < items.length && currentLines < targetLines) { ... }
RECURSIVE ExpandDown(_, _, _)
ExpandDown(items, targetLines, w) ==
    IF w.visibleEnd < Len(items) /\ w.currentLines < targetLines
    THEN LET nextLines == getItemLineCount(items, w.visibleEnd)
         IN  IF w.currentLines + nextLines <= targetLines
             THEN ExpandDown(items, targetLines,
                     Window(w.visibleStart, w.visibleEnd + 1, w.currentLines + nextLines))
             ELSE w
    ELSE w

\* upward expansion that adds one item at most
ExpandUp_Once(items, targetLines, w) ==
    IF w.visibleStart > 0 /\ w.currentLines < targetLines
       /\ w.currentLines + getItemLineCount(items, w.visibleStart - 1) <= targetLines
    THEN Window(w.visibleStart - 1, w.visibleEnd,
                w.currentLines + getItemLineCount(items, w.visibleStart - 1))
    ELSE w

\* no upward expansion at all
ExpandUp_Skip(items, targetLines, w) == w

\* while (visibleStart > 0 && currentLines < targetLines) { ... }
RECURSIVE ExpandUp(_, _, _)
ExpandUp(items, targetLines, w) ==
    IF w.visibleStart > 0 /\ w.currentLines < targetLines
    THEN LET prevLines == getItemLineCount(items, w.visibleStart - 1)
         IN  IF w.currentLines + prevLines <= targetLines
             THEN ExpandUp(items, targetLines,
                     Window(w.visibleStart - 1, w.visibleEnd, w.currentLines + prevLines))
             ELSE w
    ELSE w

\* the result record with flags that are set to constants in every branch
Result_FlagsOff(s, e, lines, scrolled, itemsBefore, itemsAfter) ==
    [visibleStart |-> s, visibleEnd |-> e, actualLines |-> lines,
     isScrolled |-> scrolled, hasItemsBefore |-> FALSE, hasItemsAfter |-> FALSE,
     error |-> FALSE, called |-> TRUE]

Result(s, e, lines, scrolled, itemsBefore, itemsAfter) ==
    [visibleStart |-> s, visibleEnd |-> e, actualLines |-> lines,
     isScrolled |-> scrolled, hasItemsBefore |-> itemsBefore, hasItemsAfter |-> itemsAfter,
     error |-> FALSE, called |-> TRUE]

OutOfBounds == [NoResult EXCEPT !.error = TRUE, !.called = TRUE]

\* the window after phase 1 (downward) and phase 2 (upward), before phase 3
WindowAfterUp(o) ==
    ExpandUp(o.items, o.targetLines,
        ExpandDown(o.items, o.targetLines,
            Window(o.cursorIndex, o.cursorIndex + 1,
                   getItemLineCount(o.items, o.cursorIndex))))

\* calculateVirtualScroll without the shortcut for content that fits
calculateVirtualScroll_NoFitCheck(o) ==
    IF Len(o.items) = 0 THEN Result(0, 0, 0, FALSE, FALSE, FALSE)
    ELSE IF o.cursorIndex < 0 \/ o.cursorIndex >= Len(o.items) THEN OutOfBounds
    ELSE LET w3 == ExpandDown(o.items, o.targetLines, WindowAfterUp(o))
         IN  Result(w3.visibleStart, w3.visibleEnd, w3.currentLines, TRUE,
                    w3.visibleStart > 0, w3.visibleEnd < Len(o.items))

\* calculateVirtualScroll that clamps the cursor instead of throwing
calculateVirtualScroll_Clamp(o) ==
    IF Len(o.items) = 0 THEN Result(0, 0, 0, FALSE, FALSE, FALSE)
    ELSE LET c  == IF o.cursorIndex < 0 THEN 0
                   ELSE Min(o.cursorIndex, Len(o.items) - 1)
             oc == [o EXCEPT !.cursorIndex = c]
         IN  IF estimatedTotalLines(o.items) <= o.targetLines
             THEN Result(0, Len(o.items), estimatedTotalLines(o.items), FALSE, FALSE, FALSE)
             ELSE LET w3 == ExpandDown(o.items, o.targetLines, WindowAfterUp(oc))
                  IN  Result(w3.visibleStart, w3.visibleEnd, w3.currentLines, TRUE,
                             w3.visibleStart > 0, w3.visibleEnd < Len(o.items))

\* calculateVirtualScroll that expands upward before it expands downward
calculateVirtualScroll_UpFirst(o) ==
    IF Len(o.items) = 0 THEN Result(0, 0, 0, FALSE, FALSE, FALSE)
    ELSE IF o.cursorIndex < 0 \/ o.cursorIndex >= Len(o.items) THEN OutOfBounds
    ELSE IF estimatedTotalLines(o.items) <= o.targetLines
    THEN Result(0, Len(o.items), estimatedTotalLines(o.items), FALSE, FALSE, FALSE)
    ELSE LET w0 == Window(o.cursorIndex, o.cursorIndex + 1,
                          getItemLineCount(o.items, o.cursorIndex))
             w1 == ExpandUp(o.items, o.targetLines, w0)
             w2 == ExpandDown(o.items, o.targetLines, w1)
         IN  Result(w2.visibleStart, w2.visibleEnd, w2.currentLines, TRUE,
                    w2.visibleStart > 0, w2.visibleEnd < Len(o.items))

\* calculateVirtualScroll that shows the page of targetLines items the cursor is on
calculateVirtualScroll_Paged(o) ==
    IF Len(o.items) = 0 THEN Result(0, 0, 0, FALSE, FALSE, FALSE)
    ELSE IF o.cursorIndex < 0 \/ o.cursorIndex >= Len(o.items) THEN OutOfBounds
    ELSE IF estimatedTotalLines(o.items) <= o.targetLines
    THEN Result(0, Len(o.items), estimatedTotalLines(o.items), FALSE, FALSE, FALSE)
    ELSE LET page == IF o.targetLines > 0 THEN o.targetLines ELSE 1
             s0 == page * (o.cursorIndex \div page)
             w0 == Window(s0, o.cursorIndex + 1, SumFrom(SubSeq(o.items, s0 + 1, o.cursorIndex + 1), 1))
             w1 == ExpandDown(o.items, o.targetLines, w0)
         IN  Result(w1.visibleStart, w1.visibleEnd, w1.currentLines, TRUE,
                    w1.visibleStart > 0, w1.visibleEnd < Len(o.items))

\* calculateVirtualScroll that starts its window at the first item
calculateVirtualScroll_FromTop(o) ==
    IF Len(o.items) = 0 THEN Result(0, 0, 0, FALSE, FALSE, FALSE)
    ELSE IF o.cursorIndex < 0 \/ o.cursorIndex >= Len(o.items) THEN OutOfBounds
    ELSE IF estimatedTotalLines(o.items) <= o.targetLines
    THEN Result(0, Len(o.items), estimatedTotalLines(o.items), FALSE, FALSE, FALSE)
    ELSE LET w0 == Window(0, 1, getItemLineCount(o.items, 0))
             w1 == ExpandDown(o.items, o.targetLines, w0)
         IN  Result(w1.visibleStart, w1.visibleEnd, w1.currentLines, TRUE,
                    w1.visibleStart > 0, w1.visibleEnd < Len(o.items))

calculateVirtualScroll(o) ==
    IF Len(o.items) = 0 THEN Result(0, 0, 0, FALSE, FALSE, FALSE)
    ELSE IF o.cursorIndex < 0 \/ o.cursorIndex >= Len(o.items) THEN OutOfBounds
    ELSE IF estimatedTotalLines(o.items) <= o.targetLines
    THEN Result(0, Len(o.items), estimatedTotalLines(o.items), FALSE, FALSE, FALSE)
    ELSE LET w0 == Window(o.cursorIndex, o.cursorIndex + 1,
                          getItemLineCount(o.items, o.cursorIndex))
             w1 == ExpandDown(o.items, o.targetLines, w0)
             w2 == ExpandUp(o.items, o.targetLines, w1)
             w3 == ExpandDown(o.items, o.targetLines, w2)
         IN  Result(w3.visibleStart, w3.visibleEnd, w3.currentLines, TRUE,
                    w3.visibleStart > 0, w3.visibleEnd < Len(o.items))

VSInputs ==
    [items : SeqsUpTo(1..MaxCost, MaxItems),
     cursorIndex : (0 - 1)..MaxItems,
     targetLines : 0..MaxTarget]

InitVS ==
    /\ NewScreenManager
    /\ NewHintManager
    /\ NoPage
    /\ vsIn \in VSInputs
    /\ vsOut = NoResult

\* one call of calculateVirtualScroll on the options drawn
VSCall ==
    /\ ~vsOut.called
    /\ vsOut' = calculateVirtualScroll(vsIn)
    /\ UNCHANGED <<vsIn, smVars, hmVars, clVars, pgVars>>

NextVS == VSCall

SpecVS == InitVS /\ [][NextVS]_vars

(***************************************************************************)
(* HintManager                                                             *)
(*                                                                         *)
(* entries is the Map in insertion order: Map.set on an existing key keeps *)
(* its position, Map.delete removes it.  The field order is the ordinal of *)
(* the set call that wrote the entry; the code does not have it.           *)
(***************************************************************************)
MaxHintCalls == 4

Tokens == {"A", "B"}
Texts == {"x", "y"}
Priorities == {5, 10}

HintEntry(token, text, priority, timestamp, order) ==
    [token |-> token, text |-> text, priority |-> priority,
     timestamp |-> timestamp, order |-> order]

HasToken(es, token) == \E i \in 1..Len(es) : es[i].token = token

\* this.entries.set(token, entry)
EntriesSet(es, e) ==
    IF HasToken(es, e.token)
    THEN [i \in 1..Len(es) |-> IF es[i].token = e.token THEN e ELSE es[i]]
    ELSE Append(es, e)

\* this.entries.delete(token)
RECURSIVE EntriesDelete(_, _)
EntriesDelete(es, token) ==
    IF es = <<>> THEN <<>>
    ELSE IF Head(es).token = token THEN EntriesDelete(Tail(es), token)
    ELSE <<Head(es)>> \o EntriesDelete(Tail(es), token)

\* the comparator of current(): negative when a sorts before b
HintCompare(a, b) ==
    IF b.priority # a.priority THEN b.priority - a.priority
    ELSE b.timestamp - a.timestamp

\* x inserted into the sorted list after every element that does not sort after it
RECURSIVE SortedInsert(_, _)
SortedInsert(sorted, x) ==
    IF sorted = <<>> THEN <<x>>
    ELSE IF HintCompare(Head(sorted), x) <= 0
         THEN <<Head(sorted)>> \o SortedInsert(Tail(sorted), x)
         ELSE <<x>> \o sorted

\* list.sort(compare): Array.prototype.sort is stable
RECURSIVE StableSort(_)
StableSort(list) ==
    IF list = <<>> THEN <<>>
    ELSE SortedInsert(StableSort(SubSeq(list, 1, Len(list) - 1)), list[Len(list)])

\* HintManager.current()
current(es) == IF Len(es) = 0 THEN "" ELSE StableSort(es)[1].text

\* set(token, text, priority); Date.now() has advanced by dt milliseconds
\* since the previous call that read it
set(token, text, priority, dt) ==
    /\ clock' = clock + dt
    /\ entries' = EntriesSet(entries, HintEntry(token, text, priority, clock', hmCalls + 1))
    /\ emitted' = <<current(entries')>>
    /\ hmLast' = HintCall("set", token)

\* clear that emits whether or not the token had an entry
clear_AlwaysEmits(token) ==
    /\ entries' = EntriesDelete(entries, token)
    /\ emitted' = <<current(entries')>>
    /\ hmLast' = HintCall("clear", token)
    /\ UNCHANGED clock

clear(token) ==
    /\ IF HasToken(entries, token)
       THEN /\ entries' = EntriesDelete(entries, token)
            /\ emitted' = <<current(entries')>>
       ELSE /\ emitted' = <<>>
            /\ UNCHANGED entries
    /\ hmLast' = HintCall("clear", token)
    /\ UNCHANGED clock

clearAll ==
    /\ IF Len(entries) > 0
       THEN /\ entries' = <<>>
            /\ emitted' = <<"">>
       ELSE /\ emitted' = <<>>
            /\ UNCHANGED entries
    /\ hmLast' = HintCall("clearAll", "")
    /\ UNCHANGED clock

\* one more call on the hint manager, while the call budget lasts
HintCounted ==
    /\ hmCalls < MaxHintCalls
    /\ hmCalls' = hmCalls + 1
    /\ UNCHANGED <<smVars, vsVars, clVars, pgVars>>

InitHM ==
    /\ NewScreenManager
    /\ NewHintManager
    /\ NoPage
    /\ vsIn = NoVS
    /\ vsOut = NoResult

NextHM ==
    \/ \E token \in Tokens, text \in Texts, priority \in Priorities, dt \in 0..1 :
           set(token, text, priority, dt) /\ HintCounted
    \/ \E token \in Tokens : clear(token) /\ HintCounted
    \/ clearAll /\ HintCounted

SpecHM == InitHM /\ [][NextHM]_vars

(***************************************************************************)
(* computeLayout                                                           *)
(*                                                                         *)
(* An argument of 0 stands for an omitted (or zero) argument: both are     *)
(* falsy and fall through to process.stdout and then to the default.       *)
(***************************************************************************)
MaxRows == 18
MaxColsArg == 3

DefaultRows == 24
DefaultCols == 80
headerHeight == 13
footerHintsHeight == 1
footerPromptHeight == 1

Max(a, b) == IF a > b THEN a ELSE b

\* a || b || c on numbers
OrElse(a, b, c) == IF a # 0 THEN a ELSE IF b # 0 THEN b ELSE c

\* the main height without the clamp to 1
mainHeight_Unclamped(termRows) ==
    termRows - headerHeight - footerHintsHeight - footerPromptHeight

mainHeight(termRows) ==
    Max(1, termRows - headerHeight - footerHintsHeight - footerPromptHeight)

computeLayout(rows, cols) ==
    LET termRows == OrElse(rows, stdout.rows, DefaultRows)
        termCols == OrElse(cols, stdout.columns, DefaultCols)
    IN  [header |-> Rect(1, 1, termCols, headerHeight),
         main |-> Rect(1 + headerHeight, 1, termCols, mainHeight(termRows)),
         footerHints |-> Rect(1 + headerHeight + mainHeight(termRows), 1, termCols,
                              footerHintsHeight),
         footerPrompt |-> Rect(1 + headerHeight + mainHeight(termRows) + footerHintsHeight,
                               1, termCols, footerPromptHeight)]

\* the terminal sizes of the computeLayout calls: not a TTY, or 17 x 5
LayoutSizes == {NoSize, [rows |-> 17, columns |-> 5]}

LayoutInputs == [rows : 0..MaxRows, cols : 0..MaxColsArg]

InitCL ==
    /\ NewScreenManager
    /\ NewHintManager
    /\ vsIn = NoVS
    /\ vsOut = NoResult
    /\ clIn \in LayoutInputs
    /\ clOut = NoLayout
    /\ stdout \in LayoutSizes
    /\ config = NoConfig
    /\ layout = NoLayout
    /\ pc = "idle"
    /\ ret = "idle"
    /\ idx = 0
    /\ nidx = 0
    /\ selectedIndex = 0
    /\ hintListeners = <<>>
    /\ log = <<>>
    /\ nevents = 0
    /\ lastKey = ""
    /\ result = NoMenuResult
    /\ rs = NoRS
    /\ cb = NoCB

LayoutCall ==
    /\ clOut = NoLayout
    /\ clOut' = computeLayout(clIn.rows, clIn.cols)
    /\ UNCHANGED <<clIn, smVars, vsVars, hmVars, pgVars>>

NextCL == LayoutCall

SpecCL == InitCL /\ [][NextCL]_vars

(***************************************************************************)
(* Components of a page                                                    *)
(*                                                                         *)
(* interact is "none" for a component without interact handler, "menu" for *)
(* the handler of createRadioMenuComponentV2 and "custom" for a handler    *)
(* given to createCustomComponent that completes without painting.        *)
(***************************************************************************)
Component(type, regionId, interact) ==
    [type |-> type, regionId |-> regionId, interact |-> interact]

HeaderComponent == Component("header", "header", "none")
CustomComponent == Component("custom", "header", "custom")
RadioMenuComponent == Component("radio-menu", "main", "menu")
HintsComponent == Component("hints", "footerHints", "none")
PromptComponent == Component("prompt", "footerPrompt", "none")
StatusComponent == Component("status", "footerStatus", "none")

\* a separator of the option list (label '')
Separator == "sep"

\* menuConfig.options; allowNumberKeys and allowLetterKeys are both on or both off
OptionLists == {<<"a", "b">>, <<"a", Separator, "b">>, <<Separator, "a">>}

PageConfig(header, mainArea, footer, options, allowKeys) ==
    [header |-> header, mainArea |-> mainArea, footer |-> footer, options |-> options,
     allowNumberKeys |-> allowKeys, allowLetterKeys |-> allowKeys]

PageConfigs ==
    {PageConfig(h[1], <<RadioMenuComponent>>, h[2], o[1], o[2]) :
        h \in {<< <<HeaderComponent>>, <<PromptComponent, HintsComponent>> >>,
               << <<CustomComponent>>, <<HintsComponent>> >>,
               << <<>>, <<PromptComponent>> >>,
               << <<HeaderComponent>>, <<HintsComponent, StatusComponent>> >>},
        o \in OptionLists \X BOOLEAN}

\* the terminal sizes of a page
PageSizes == {[rows |-> 16, columns |-> 5], [rows |-> 17, columns |-> 4]}

\* the components of one area with their place in the configuration
Tag(area, components) ==
    [k \in 1..Len(components) |-> [area |-> area, k |-> k, c |-> components[k]]]

\* the components in footer, header, main order
Components_FooterFirst(cfg) ==
    Tag("footer", cfg.footer) \o Tag("header", cfg.header) \o Tag("mainArea", cfg.mainArea)

\* the components in the order of the three loops of renderPageV2
Components(cfg) ==
    Tag("header", cfg.header) \o Tag("mainArea", cfg.mainArea) \o Tag("footer", cfg.footer)

\* the rect a component is registered with; NoRect when the loop skips it
RegisterRect(t, l) ==
    IF t.area = "header" THEN l.header
    ELSE IF t.area = "mainArea" THEN l.main
    ELSE IF t.c.type = "hints" THEN l.footerHints
    ELSE IF t.c.type = "prompt" THEN l.footerPrompt
    ELSE NoRect

\* the rect a component is rendered with in phase 1
RenderRect(t, l) ==
    IF t.area = "header" THEN l.header
    ELSE IF t.area = "mainArea" THEN l.main
    ELSE IF t.c.type = "hints" THEN l.footerHints
    ELSE l.footerPrompt

\* the first component of the footer
hintsComponent_First(cfg) ==
    IF cfg.footer = <<>> THEN <<>> ELSE <<cfg.footer[1]>>

\* config.footer?.components.find(c => c.type === 'hints'): <<>> or one component
RECURSIVE FindHints(_)
FindHints(components) ==
    IF components = <<>> THEN <<>>
    ELSE IF Head(components).type = "hints" THEN <<Head(components)>>
    ELSE FindHints(Tail(components))

hintsComponent(cfg) == FindHints(cfg.footer)

(***************************************************************************)
(* Strings of the page: the code units of the hint texts and of the lines  *)
(* the components render                                                   *)
(***************************************************************************)
Sgr(n) == <<ESC, "[">> \o n \o <<"m">>
green == Sgr(<<"3", "2">>)
bold == Sgr(<<"1">>)
dim == Sgr(<<"2">>)

Repeat(u, n) == [i \in 1..n |-> u]

\* `Selected: ${value}`
SelectedText(value) ==
    IF value = "a" THEN "Selected: a"
    ELSE IF value = "b" THEN "Selected: b"
    ELSE "Selected: "

SelectedUnits == <<"S", "e", "l", "e", "c", "t", "e", "d", ":", " ">>

\* the code units of a hint text
Units(text) ==
    IF text = "" THEN <<>>
    ELSE IF text = "Selected: a" THEN SelectedUnits \o <<"a">>
    ELSE IF text = "Selected: b" THEN SelectedUnits \o <<"b">>
    ELSE IF text = "Selected: " THEN SelectedUnits
    ELSE <<text>>

(***************************************************************************)
(* createRadioMenuComponentV2: option data and renderMenu                  *)
(***************************************************************************)
isSeparator(options, index) == options[index + 1] = Separator

\* optionData[index].value
OptionValue(options, index) ==
    IF isSeparator(options, index) THEN "" ELSE options[index + 1]

\* selectableIndices, 0-based indices in option order
RECURSIVE SelectableFrom(_, _)
SelectableFrom(options, index) ==
    IF index >= Len(options) THEN <<>>
    ELSE IF isSeparator(options, index) THEN SelectableFrom(options, index + 1)
    ELSE <<index>> \o SelectableFrom(options, index + 1)

selectableIndices(options) == SelectableFrom(options, 0)

\* Array.prototype.indexOf: 0-based, -1 when absent
RECURSIVE IndexFrom(_, _, _)
IndexFrom(list, x, i) ==
    IF i > Len(list) THEN -1
    ELSE IF list[i] = x THEN i - 1
    ELSE IndexFrom(list, x, i + 1)

IndexOf(list, x) == IndexFrom(list, x, 1)

Digit(n) == IF n = 1 THEN "1" ELSE IF n = 2 THEN "2" ELSE IF n = 3 THEN "3" ELSE "0"

\* the line of one option
MenuLine(options, index, selected) ==
    IF isSeparator(options, index)
    THEN dim \o Repeat("-", 5) \o <<" ", " ">> \o Repeat("-", 20) \o SgrReset
    ELSE LET isSelected == index = selected
             prefix == IF isSelected THEN green \o <<">">> \o SgrReset ELSE <<" ">>
             displayPrefix ==
                 <<Digit(IndexOf(selectableIndices(options), index) + 1), ".", " ">>
             value == <<options[index + 1]>>
             text == IF isSelected
                     THEN green \o bold \o displayPrefix \o value \o SgrReset
                     ELSE displayPrefix \o value
         IN  prefix \o <<" ">> \o text

renderMenu(options, selected, rect) ==
    [i \in 1..Max(Len(options), rect.height) |->
        IF i <= Len(options) THEN MenuLine(options, i - 1, selected) ELSE <<>>]

\* component.render(rect)
Render(c, rect) ==
    IF c.type = "radio-menu" THEN renderMenu(config.options, selectedIndex, rect)
    ELSE IF c.type = "hints"
         THEN IF current(entries) = "" THEN << <<>> >>
              ELSE <<dim \o Units(current(entries)) \o SgrReset>>
    ELSE IF c.type = "header" THEN <<<<"T">>, Repeat("-", rect.width), <<>>>>
    ELSE IF c.type = "prompt" THEN << <<"?">> >>
    ELSE << <<"s">> >>

(***************************************************************************)
(* renderPageV2 with the handlers it installs and the interact handler of  *)
(* the radio menu component.                                               *)
(*                                                                         *)
(* A step is one call on the screen manager or the hint manager, or one    *)
(* loop test.  pc is the position of the code that runs: between "wait"    *)
(* positions the code is synchronous, so only the step at pc is enabled    *)
(* and key, resize and outside hint events arrive at "wait" only.          *)
(***************************************************************************)
MaxEvents == 2
MaxPages == 2

\* the milliseconds between two hint manager calls of a page: the hints of a
\* page never tie in priority, so their timestamps decide nothing
PageTicks == {1}

Keys == {"up", "down", "1", "3", "b", "z", "return", "ctrl-c"}

\* one more call on the screen manager
PageCounted ==
    /\ ncalls' = ncalls + 1
    /\ before' = Brief(last)
    /\ steady' = (steady /\ KeepsSteady(last'))

\* interactiveComponents
Interactive(t) == t.c.interact # "none"

interactiveComponents(cfg) == SelectSeq(Components(cfg), Interactive)

Event(ev, t) == [ev |-> ev, area |-> t.area, k |-> t.k]

\* the selection after a key that is neither Enter nor Ctrl+C, and needsUpdate
onKeySelection(options, selected, key, numberKeys, letterKeys) ==
    LET sel == selectableIndices(options)
        currentPos == IndexOf(sel, selected)
        num == IF key = "1" THEN 1 ELSE 3
        matches == {i \in 1..Len(sel) : options[sel[i] + 1] = key}
        Keep == [selectedIndex |-> selected, needsUpdate |-> FALSE]
        To(i) == [selectedIndex |-> i, needsUpdate |-> TRUE]
    IN  IF key = "up" THEN (IF currentPos > 0 THEN To(sel[currentPos]) ELSE Keep)
        ELSE IF key = "down"
             THEN (IF currentPos < Len(sel) - 1 THEN To(sel[currentPos + 2]) ELSE Keep)
        ELSE IF numberKeys /\ key \in {"1", "3"}
             THEN (IF num > 0 /\ num <= Len(sel) THEN To(sel[num]) ELSE Keep)
        ELSE IF letterKeys /\ key \in {"b", "z"}
             THEN (IF matches # {}
                   THEN To(sel[CHOOSE i \in matches : \A j \in matches : i <= j])
                   ELSE Keep)
        ELSE Keep

\* after a hint manager call: its 'change' event, if any, goes to the
\* listeners before the caller continues at r
Emit(r) ==
    IF emitted' # <<>> /\ hintListeners # <<>>
    THEN pc' = "emit" /\ ret' = r /\ nidx' = 1
    ELSE pc' = r /\ UNCHANGED <<ret, nidx>>

\* hintManager.set('menu', `Selected: ${optionData[selectedIndex].value}`, 10)
SetMenuHint(r) ==
    /\ \E dt \in PageTicks :
          set("menu", SelectedText(OptionValue(config.options, selectedIndex)), 10, dt)
    /\ hmCalls' = hmCalls + 1
    /\ Emit(r)

\* cleanup() of the interact handler
cleanup(r) ==
    /\ clear("menu")
    /\ hmCalls' = hmCalls + 1
    /\ Emit(r)

InitPG ==
    /\ NewScreenManager
    /\ NewHintManager
    /\ vsIn = NoVS
    /\ vsOut = NoResult
    /\ clIn = [rows |-> 0, cols |-> 0]
    /\ clOut = NoLayout
    /\ stdout \in PageSizes
    /\ config \in PageConfigs
    /\ layout = NoLayout
    /\ pc = "enter"
    /\ ret = "idle"
    /\ idx = 0
    /\ nidx = 0
    /\ selectedIndex = 0
    /\ hintListeners = <<>>
    /\ log = <<>>
    /\ nevents = 0
    /\ lastKey = ""
    /\ result = NoMenuResult
    /\ rs = NoRS
    /\ cb = NoCB

\* lines 93-96
PageEnter ==
    /\ pc = "enter"
    /\ enter /\ PageCounted
    /\ layout' = computeLayout(0, 0)
    /\ pc' = "register"
    /\ idx' = 1
    /\ UNCHANGED <<stdout, config, ret, nidx, selectedIndex, hintListeners, log, nevents,
                   vsVars, hmVars, clVars, kyVars, mnVars>>

\* lines 98-120, one component
PageRegister ==
    /\ pc = "register"
    /\ idx <= Len(Components(config))
    /\ LET t == Components(config)[idx]
       IN  IF RegisterRect(t, layout) = NoRect
           THEN UNCHANGED smVars
           ELSE registerRegion(t.c.regionId, RegisterRect(t, layout)) /\ PageCounted
    /\ idx' = idx + 1
    /\ UNCHANGED <<stdout, config, layout, pc, ret, nidx, selectedIndex, hintListeners,
                   log, nevents, vsVars, hmVars, clVars, kyVars, mnVars>>

PageRegistered ==
    /\ pc = "register"
    /\ idx > Len(Components(config))
    /\ pc' = "paint"
    /\ idx' = 1
    /\ UNCHANGED <<stdout, config, layout, ret, nidx, selectedIndex, hintListeners, log,
                   nevents, smVars, vsVars, hmVars, clVars, kyVars, mnVars>>

\* phase 1 that leaves out the components of the header
PagePaint_SkipsHeader ==
    /\ pc = "paint"
    /\ idx <= Len(Components(config))
    /\ LET t == Components(config)[idx]
       IN  IF t.area = "header"
           THEN UNCHANGED <<smVars, pc, log>> /\ idx' = idx + 1
           ELSE /\ renderRegion(t.c.regionId, Render(t.c, RenderRect(t, layout)))
                /\ PageCounted
                /\ IF last'.err
                   THEN pc' = "threw" /\ UNCHANGED <<idx, log>>
                   ELSE /\ idx' = idx + 1
                        /\ log' = Append(log, Event("paint", t))
                        /\ UNCHANGED pc
    /\ UNCHANGED <<stdout, config, layout, ret, nidx, selectedIndex, hintListeners,
                   nevents, vsVars, hmVars, clVars, kyVars, mnVars>>

\* lines 123-145, one component: render, then renderRegion; an error of
\* renderRegion rejects renderPageV2
PagePaint ==
    /\ pc = "paint"
    /\ idx <= Len(Components(config))
    /\ LET t == Components(config)[idx]
       IN  /\ renderRegion(t.c.regionId, Render(t.c, RenderRect(t, layout)))
           /\ PageCounted
           /\ IF last'.err
              THEN pc' = "threw" /\ UNCHANGED <<idx, log>>
              ELSE /\ idx' = idx + 1
                   /\ log' = Append(log, Event("paint", t))
                   /\ UNCHANGED pc
    /\ UNCHANGED <<stdout, config, layout, ret, nidx, selectedIndex, hintListeners,
                   nevents, vsVars, hmVars, clVars, kyVars, mnVars>>

\* lines 147-175: the 'change' and 'resize' listeners are installed
PageListen ==
    /\ pc = "paint"
    /\ idx > Len(Components(config))
    /\ hintListeners' = Append(hintListeners, config)
    /\ pc' = "interact"
    /\ idx' = 1
    /\ UNCHANGED <<stdout, config, layout, ret, nidx, selectedIndex, log, nevents,
                   smVars, vsVars, hmVars, clVars, kyVars, mnVars>>

\* the component whose interact handler runs
Interacting == interactiveComponents(config)[idx]

\* lines 178-182: component.interact() is called; the radio menu installs
\* onKey and sets its first hint (part_010 79-83, 158-161)
PageInteract ==
    /\ pc = "interact"
    /\ idx <= Len(interactiveComponents(config))
    /\ log' = Append(log, Event("start", Interacting))
    /\ IF Interacting.c.interact = "menu"
       THEN SetMenuHint("wait")
       ELSE pc' = "wait" /\ UNCHANGED <<ret, nidx, hmVars>>
    /\ UNCHANGED <<stdout, config, layout, idx, selectedIndex, hintListeners, nevents,
                   smVars, vsVars, clVars, kyVars, mnVars>>

\* the listener of lines 148-153 that repaints the first footer component
PageChange_FirstFooter ==
    /\ pc = "emit"
    /\ LET hc == hintsComponent_First(hintListeners[nidx])
       IN  IF hc = <<>>
           THEN UNCHANGED smVars /\ pc' = IF nidx < Len(hintListeners) THEN pc ELSE ret
           ELSE /\ renderRegion(hc[1].regionId, <<Units(emitted[1])>>)
                /\ PageCounted
                /\ pc' = IF last'.err THEN "threw"
                         ELSE IF nidx < Len(hintListeners) THEN pc ELSE ret
    /\ nidx' = nidx + 1
    /\ UNCHANGED <<stdout, config, layout, ret, idx, selectedIndex, hintListeners, log,
                   nevents, vsVars, hmVars, clVars, kyVars, mnVars>>

\* lines 148-153: the next 'change' listener runs with the emitted text
PageChange ==
    /\ pc = "emit"
    /\ LET hc == hintsComponent(hintListeners[nidx])
       IN  IF hc = <<>>
           THEN UNCHANGED smVars /\ pc' = IF nidx < Len(hintListeners) THEN pc ELSE ret
           ELSE /\ renderRegion(hc[1].regionId, <<Units(emitted[1])>>)
                /\ PageCounted
                /\ pc' = IF last'.err THEN "threw"
                         ELSE IF nidx < Len(hintListeners) THEN pc ELSE ret
    /\ nidx' = nidx + 1
    /\ UNCHANGED <<stdout, config, layout, ret, idx, selectedIndex, hintListeners, log,
                   nevents, vsVars, hmVars, clVars, kyVars, mnVars>>

\* the region onKey repaints (part_010 145)
MenuRegion_Header == "header"

MenuRegion == "main"

\* part_010 90-145: a key other than Enter and Ctrl+C
KeyPress(key) ==
    /\ pc = "wait"
    /\ Interacting.c.interact = "menu"
    /\ key \notin {"return", "ctrl-c"}
    /\ nevents < MaxEvents
    /\ nevents' = nevents + 1
    /\ lastKey' = key
    /\ LET n == onKeySelection(config.options, selectedIndex, key,
                               config.allowNumberKeys, config.allowLetterKeys)
       IN  /\ selectedIndex' = n.selectedIndex
           /\ IF n.needsUpdate
              THEN /\ renderRegion(MenuRegion,
                                   renderMenu(config.options, n.selectedIndex,
                                              computeLayout(0, 0).main))
                   /\ PageCounted
                   /\ pc' = IF last'.err THEN "threw" ELSE "hint"
              ELSE UNCHANGED <<smVars, pc>>
    /\ UNCHANGED <<stdout, config, layout, ret, idx, nidx, hintListeners, log,
                   vsVars, hmVars, clVars, result, mnVars>>

\* part_010 147-148
MenuHint ==
    /\ pc = "hint"
    /\ SetMenuHint("wait")
    /\ UNCHANGED <<stdout, config, layout, idx, selectedIndex, hintListeners, log,
                   nevents, smVars, vsVars, clVars, kyVars, mnVars>>

\* part_010 132-135: the result of the menu
RadioMenuResult(options, selected) ==
    [value |-> OptionValue(options, selected),
     index |-> IndexOf(selectableIndices(options), selected),
     given |-> TRUE]

\* part_010 130-136: Enter, up to the end of cleanup(), with the result that
\* onResult gets
KeyReturn ==
    /\ pc = "wait"
    /\ Interacting.c.interact = "menu"
    /\ cleanup("resolve")
    /\ lastKey' = "return"
    /\ result' = RadioMenuResult(config.options, selectedIndex)
    /\ UNCHANGED <<stdout, config, layout, idx, selectedIndex, hintListeners, log,
                   nevents, smVars, vsVars, clVars, mnVars>>

\* part_010 85-86: Ctrl+C, up to the end of cleanup()
KeyCtrlC ==
    /\ pc = "wait"
    /\ Interacting.c.interact = "menu"
    /\ cleanup("terminate")
    /\ lastKey' = "ctrl-c"
    /\ UNCHANGED <<stdout, config, layout, idx, selectedIndex, hintListeners, log,
                   nevents, smVars, vsVars, clVars, result, mnVars>>

\* part_010 132-138 and layout.ts 178-182: onResult, resolve(), next component
PageResolve ==
    /\ pc = "resolve"
    /\ log' = Append(log, Event("end", Interacting))
    /\ idx' = idx + 1
    /\ pc' = "interact"
    /\ UNCHANGED <<stdout, config, layout, ret, nidx, selectedIndex, hintListeners,
                   nevents, smVars, vsVars, hmVars, clVars, kyVars, mnVars>>

\* part_010 87: process.exit(0)
PageTerminate ==
    /\ pc = "terminate"
    /\ pc' = "terminated"
    /\ UNCHANGED <<stdout, config, layout, ret, idx, nidx, selectedIndex, hintListeners,
                   log, nevents, smVars, vsVars, hmVars, clVars, kyVars, mnVars>>

\* the interact handler of a custom component completes
CustomDone ==
    /\ pc = "wait"
    /\ Interacting.c.interact = "custom"
    /\ log' = Append(log, Event("end", Interacting))
    /\ idx' = idx + 1
    /\ pc' = "interact"
    /\ UNCHANGED <<stdout, config, layout, ret, nidx, selectedIndex, hintListeners,
                   nevents, smVars, vsVars, hmVars, clVars, kyVars, mnVars>>

\* lines 156-162: the terminal got another size
Resize ==
    /\ pc = "wait"
    /\ hintListeners # <<>>
    /\ nevents < MaxEvents
    /\ nevents' = nevents + 1
    /\ stdout' \in PageSizes \ {stdout}
    /\ invalidateAll /\ PageCounted
    /\ UNCHANGED <<config, layout, pc, ret, idx, nidx, selectedIndex, hintListeners, log,
                   vsVars, hmVars, clVars, kyVars, mnVars>>

\* code outside the page sets a hint of its own while the page waits or
\* after renderPageV2 has returned
OutsideHint ==
    /\ pc \in {"wait", "returned"}
    /\ nevents < MaxEvents
    /\ nevents' = nevents + 1
    /\ \E priority \in {5, 20}, dt \in PageTicks : set("A", "x", priority, dt)
    /\ hmCalls' = hmCalls + 1
    /\ Emit(pc)
    /\ UNCHANGED <<stdout, config, layout, idx, selectedIndex, hintListeners, log,
                   smVars, vsVars, clVars, kyVars, mnVars>>

\* renderPageV2 that returns without leaving the alternate screen
PageExit_StaysIn ==
    /\ pc = "interact"
    /\ idx > Len(interactiveComponents(config))
    /\ pc' = "returned"
    /\ UNCHANGED <<stdout, config, layout, ret, idx, nidx, selectedIndex, hintListeners,
                   log, nevents, smVars, vsVars, hmVars, clVars, kyVars, mnVars>>

\* lines 184-186
PageExit ==
    /\ pc = "interact"
    /\ idx > Len(interactiveComponents(config))
    /\ exit /\ PageCounted
    /\ pc' = "returned"
    /\ UNCHANGED <<stdout, config, layout, ret, idx, nidx, selectedIndex, hintListeners,
                   log, nevents, vsVars, hmVars, clVars, kyVars, mnVars>>

\* renderPageV2 is called again for a page of the same configuration, with
\* newly created components
PageAgain ==
    /\ pc = "returned"
    /\ Len(hintListeners) < MaxPages
    /\ pc' = "enter"
    /\ selectedIndex' = 0
    /\ log' = <<>>
    /\ result' = NoMenuResult
    /\ lastKey' = ""
    /\ UNCHANGED <<stdout, config, layout, ret, idx, nidx, hintListeners, nevents,
                   smVars, vsVars, hmVars, clVars, mnVars>>

NextPG ==
    \/ PageEnter
    \/ PageRegister
    \/ PageRegistered
    \/ PagePaint
    \/ PageListen
    \/ PageInteract
    \/ PageChange
    \/ \E key \in Keys : KeyPress(key)
    \/ MenuHint
    \/ KeyReturn
    \/ KeyCtrlC
    \/ PageResolve
    \/ PageTerminate
    \/ CustomDone
    \/ Resize
    \/ OutsideHint
    \/ PageExit
    \/ PageAgain

SpecPG == InitPG /\ [][NextPG]_vars

(***************************************************************************)
(* getNextSelectableIndex                                                  *)
(*                                                                         *)
(* The helper of showRadioMenu, waitForRadioMenuInput, showCheckboxMenu    *)
(* and showCheckboxTableMenu: len is the number of options, selectable the *)
(* set of the 0-based indices that are no separators.                      *)
(***************************************************************************)
RECURSIVE NextAttempt(_, _, _, _, _)
NextAttempt(len, selectable, nextIndex, direction, attempts) ==
    LET n == IF direction = "up"
             THEN (IF nextIndex > 0 THEN nextIndex - 1 ELSE len - 1)
             ELSE (IF nextIndex < len - 1 THEN nextIndex + 1 ELSE 0)
    IN  IF n \notin selectable /\ attempts + 1 < len
        THEN NextAttempt(len, selectable, n, direction, attempts + 1)
        ELSE n

getNextSelectableIndex(len, selectable, currentIndex, direction) ==
    LET nextIndex == NextAttempt(len, selectable, currentIndex, direction, 0)
    IN  IF nextIndex \in selectable THEN nextIndex ELSE currentIndex

\* the elements of a sequence of indices
Indices(sel) == {sel[i] : i \in 1..Len(sel)}

(***************************************************************************)
(* renderRadioMenuUI and waitForRadioMenuInput (radio-menu-split.ts)       *)
(*                                                                         *)
(* One step per call on the screen manager or the terminal.  The option    *)
(* lines that render() prints are not part of the state.  allowNumberKeys  *)
(* and allowLetterKeys have their defaults (true, false).                  *)
(***************************************************************************)
\* regionId = `menu-${Date.now()}`
SplitRegionId == "menu"

SplitKeys == {"up", "down", "1", "3"}

\* the configurations of the split radio menu
SplitConfigs ==
    {[NoRS EXCEPT !.pc = "config", !.options = o, !.defaultIndex = d,
                  !.preserveOnSelect = p] :
        o \in OptionLists, d \in 0..1, p \in BOOLEAN}

\* selectedIndex of renderRadioMenuUI
SplitSelected(options, defaultIndex) ==
    LET clamped == Max(0, Min(defaultIndex, Len(options) - 1))
        sel == selectableIndices(options)
    IN  IF clamped \in Indices(sel) THEN clamped
        ELSE IF sel # <<>> THEN sel[1] ELSE 0

\* initTerminal(): raw mode on, cursor hidden
initTerminal ==
    /\ out' = <<CursorHide>>
    /\ term' = TermApply(term, out')

\* restoreTerminal(state) without the alternate screen: cursor shown
restoreTerminal ==
    /\ out' = <<CursorShow>>
    /\ term' = TermApply(term, out')

smRest == <<regions, cache, isAltScreen, last, before, ncalls, steady>>

InitRS ==
    /\ NewScreenManager
    /\ NewHintManager
    /\ NoSession
    /\ vsIn = NoVS
    /\ vsOut = NoResult
    /\ rs \in SplitConfigs
    /\ cb = NoCB

\* renderRadioMenuUI(config)
SplitRender ==
    /\ rs.pc = "config"
    /\ rs' = [rs EXCEPT !.pc = "rendered",
                        !.selectedIndex = SplitSelected(rs.options, rs.defaultIndex)]
    /\ UNCHANGED <<smVars, sessionVars, vsVars, hmVars, clVars, cb>>

\* the caller registers a region between the two phases
SplitRegister ==
    /\ rs.pc = "rendered"
    /\ DOMAIN regions = {}
    /\ \E id \in {"main", SplitRegionId}, rect \in Rects : registerRegion(id, rect)
    /\ PageCounted
    /\ UNCHANGED <<rs, sessionVars, vsVars, hmVars, clVars, cb>>

\* waitForRadioMenuInput up to state.stdin.on('data', onData)
SplitWait ==
    /\ rs.pc = "rendered"
    /\ initTerminal
    /\ rs' = [rs EXCEPT !.pc = "waiting", !.listening = TRUE, !.isRawMode = TRUE]
    /\ UNCHANGED <<smRest, sessionVars, vsVars, hmVars, clVars, cb>>

\* onData for an arrow key or a number key
SplitKey(key) ==
    /\ rs.pc = "waiting"
    /\ LET sel == selectableIndices(rs.options)
           targetIndex == (IF key = "1" THEN 1 ELSE 3) - 1
           to == IF key \in {"up", "down"}
                 THEN getNextSelectableIndex(Len(rs.options), Indices(sel),
                                             rs.selectedIndex, key)
                 ELSE IF targetIndex < Len(sel) THEN sel[targetIndex + 1]
                 ELSE rs.selectedIndex
       IN  rs' = [rs EXCEPT !.selectedIndex = to, !.key = key]
    /\ UNCHANGED <<smVars, sessionVars, vsVars, hmVars, clVars, cb>>

\* onData for Ctrl+C: state.stdin.removeListener('data', onData)
SplitCtrlC ==
    /\ rs.pc = "waiting"
    /\ rs' = [rs EXCEPT !.pc = "clear", !.listening = FALSE, !.key = "ctrl-c"]
    /\ UNCHANGED <<smVars, sessionVars, vsVars, hmVars, clVars, cb>>

\* onData for Enter on a selectable option: removeListener
SplitEnter ==
    /\ rs.pc = "waiting"
    /\ ~isSeparator(rs.options, rs.selectedIndex)
    /\ rs' = [rs EXCEPT !.pc = IF rs.preserveOnSelect THEN "restore" ELSE "clear",
                        !.listening = FALSE, !.key = "return"]
    /\ UNCHANGED <<smVars, sessionVars, vsVars, hmVars, clVars, cb>>

\* screenManager.clearRegion(menuState.regionId); an error leaves onData and
\* is not caught
SplitClear ==
    /\ rs.pc = "clear"
    /\ clearRegion(SplitRegionId)
    /\ PageCounted
    /\ rs' = [rs EXCEPT !.pc = IF last'.err THEN "threw" ELSE "restore"]
    /\ UNCHANGED <<sessionVars, vsVars, hmVars, clVars, cb>>

\* restoreTerminal(state)
SplitRestore ==
    /\ rs.pc = "restore"
    /\ restoreTerminal
    /\ rs' = [rs EXCEPT !.pc = IF rs.key = "ctrl-c" THEN "exit" ELSE "resolved",
                        !.isRawMode = FALSE]
    /\ UNCHANGED <<smRest, sessionVars, vsVars, hmVars, clVars, cb>>

\* onExit() or console.log, then process.exit(0)
SplitExit ==
    /\ rs.pc = "exit"
    /\ rs' = [rs EXCEPT !.pc = "exited"]
    /\ UNCHANGED <<smVars, sessionVars, vsVars, hmVars, clVars, cb>>

NextRS ==
    \/ SplitRender
    \/ SplitRegister
    \/ SplitWait
    \/ \E key \in SplitKeys : SplitKey(key)
    \/ SplitCtrlC
    \/ SplitEnter
    \/ SplitClear
    \/ SplitRestore
    \/ SplitExit

SpecRS == InitRS /\ [][NextRS]_vars

(***************************************************************************)
(* showCheckboxMenu and showCheckboxTableMenu                              *)
(*                                                                         *)
(* variant "basic" is showCheckboxMenu of checkbox-menu.ts, "menu" the     *)
(* showCheckboxMenu with separators (part_011), "table"                    *)
(* showCheckboxTableMenu (part_013).  An option is a record: its type and, *)
(* for a separator, whether it has a description.  maxSelections 0 stands  *)
(* for an undefined maxSelections.  allowSelectAll and allowInvert have    *)
(* their default, true.  The text that render() prints is not part of the  *)
(* state, the number of lines it writes for the visible options is.        *)
(***************************************************************************)
DataItem == [type |-> "data", description |-> FALSE]

SeparatorItem(d) == [type |-> "separator", description |-> d]

TableSeparator(i, d) == [beforeIndex |-> i, description |-> d]

\* buildOptionsWithSeparators from data row i and separator sepIndex on; seps
\* is sortedSeparators
RECURSIVE BuildFrom(_, _, _, _)
BuildFrom(n, seps, i, sepIndex) ==
    IF i >= n THEN <<>>
    ELSE IF sepIndex <= Len(seps) /\ seps[sepIndex].beforeIndex = i
         THEN <<SeparatorItem(seps[sepIndex].description)>>
              \o BuildFrom(n, seps, i, sepIndex + 1)
         ELSE <<DataItem>> \o BuildFrom(n, seps, i + 1, sepIndex)

buildOptionsWithSeparators(n, seps) == BuildFrom(n, seps, 0, 1)

\* the 0-based indices of the options that are no separators
SelectableOf(options) == {i \in 0..(Len(options) - 1) : options[i + 1].type = "data"}

\* item.originalIndex of the data row at index
originalIndex(options, index) == Cardinality({i \in SelectableOf(options) : i < index})

\* the first k elements of a set of indices, in index order
TakeFirst(S, k) == {i \in S : Cardinality({j \in S : j < i}) < k}

TARGET_LINES == 30

\* getItemLineCount of render (part_013)
TableItemLineCount(options, index) ==
    LET item == options[index + 1]
    IN  IF item.type = "separator"
        THEN 1 + (IF index > 0 THEN 1 ELSE 0) + (IF item.description THEN 1 ELSE 0)
        ELSE 1

RECURSIVE TableLinesFrom(_, _)
TableLinesFrom(options, index) ==
    IF index >= Len(options) THEN 0
    ELSE TableItemLineCount(options, index) + TableLinesFrom(options, index + 1)

TableTotalLines(options) == TableLinesFrom(options, 0)

\* the loops 'expand downward' of render
RECURSIVE TableExpandDown(_, _)
TableExpandDown(options, w) ==
    IF w.visibleEnd < Len(options) /\ w.currentLines < TARGET_LINES
       /\ w.currentLines + TableItemLineCount(options, w.visibleEnd) <= TARGET_LINES
    THEN TableExpandDown(options,
             [w EXCEPT !.visibleEnd = w.visibleEnd + 1,
                       !.currentLines =
                           w.currentLines + TableItemLineCount(options, w.visibleEnd)])
    ELSE w

\* the loop 'expand upward' of render
RECURSIVE TableExpandUp(_, _)
TableExpandUp(options, w) ==
    IF w.visibleStart > 0 /\ w.currentLines < TARGET_LINES
       /\ w.currentLines + TableItemLineCount(options, w.visibleStart - 1) <= TARGET_LINES
    THEN TableExpandUp(options,
             [w EXCEPT !.visibleStart = w.visibleStart - 1,
                       !.currentLines =
                           w.currentLines + TableItemLineCount(options, w.visibleStart - 1)])
    ELSE w

\* the lines the loop 'render visible options' writes for the item at index
WrittenFor(options, index, visibleStart) ==
    LET item == options[index + 1]
    IN  IF item.type = "separator"
        THEN (IF index > visibleStart THEN 1 ELSE 0) + 1
             + (IF item.description THEN 1 ELSE 0)
        ELSE 1

RECURSIVE WrittenFrom(_, _, _, _)
WrittenFrom(options, index, visibleStart, visibleEnd) ==
    IF index >= visibleEnd THEN 0
    ELSE WrittenFor(options, index, visibleStart)
         + WrittenFrom(options, index + 1, visibleStart, visibleEnd)

\* the window of render and the lines written for its items
TableWindow(options, cursorIndex) ==
    LET scrolled == TableTotalLines(options) > TARGET_LINES
        start == [scrolled |-> TRUE, visibleStart |-> cursorIndex,
                  visibleEnd |-> cursorIndex + 1,
                  currentLines |-> TableItemLineCount(options, cursorIndex),
                  written |-> 0]
        w == IF scrolled
             THEN TableExpandDown(options,
                      TableExpandUp(options, TableExpandDown(options, start)))
             ELSE [scrolled |-> FALSE, visibleStart |-> 0, visibleEnd |-> Len(options),
                   currentLines |-> 0, written |-> 0]
    IN  [w EXCEPT !.written = WrittenFrom(options, w.visibleStart, w.visibleStart,
                                          w.visibleEnd)]

\* render()
CheckboxRender(c) ==
    IF c.variant = "table" THEN [c EXCEPT !.win = TableWindow(c.options, c.cursorIndex)]
    ELSE c

MaxOptions == 3
MaxSelections == 3
MinSelections == 2

\* the option lists of showCheckboxMenu
CheckboxLists ==
    {<<DataItem, DataItem>>, <<DataItem, SeparatorItem(FALSE), DataItem>>,
     <<SeparatorItem(FALSE), DataItem, DataItem>>}

\* the sets defaultSelected can be: indices of options, no more than max
DefaultSets(indices, max) ==
    {D \in SUBSET indices : max = 0 \/ Cardinality(D) <= max}

CheckboxConfig(variant, options, data, max, min, D) ==
    [NoCB EXCEPT !.pc = "config", !.variant = variant, !.options = options,
                 !.data = data, !.maxSelections = max, !.minSelections = min,
                 !.defaultSelected = D]

CheckboxConfigs ==
    {CheckboxConfig("basic", [i \in 1..n |-> DataItem], n, max, min, D) :
        <<n, max, min, D>> \in
            {t \in (2..MaxOptions) \X (0..MaxSelections) \X (0..MinSelections)
                   \X (SUBSET (0..(MaxOptions - 1))) :
                t[4] \in DefaultSets(0..(t[1] - 1), t[2])}}
    \cup
    {CheckboxConfig("menu", o, Len(o), max, min, D) :
        <<o, max, min, D>> \in
            {t \in CheckboxLists \X (0..MaxSelections) \X (0..MinSelections)
                   \X (SUBSET (0..(MaxOptions - 1))) :
                t[4] \in DefaultSets(0..(Len(t[1]) - 1), t[2])}}
    \cup
    {CheckboxConfig("table", buildOptionsWithSeparators(n, s), n, max, min, D) :
        <<n, s, max, min, D>> \in
            {t \in (2..MaxOptions) \X {<<>>, <<TableSeparator(1, TRUE)>>}
                   \X (0..MaxSelections) \X (0..MinSelections)
                   \X (SUBSET (0..(MaxOptions - 1))) :
                t[5] \in DefaultSets(0..(t[1] - 1), t[3])}}

MaxTableData == 33

\* sortedSeparators of a table of n rows: at most a group label before the
\* first row and one before a later row
TableSeparators(n) ==
    {lead \o rest :
        lead \in {<<>>} \cup {<<TableSeparator(0, d)>> : d \in BOOLEAN},
        rest \in {<<>>} \cup {<<TableSeparator(i, d)>> : i \in 1..(n - 1), d \in BOOLEAN}}

\* tables long enough to scroll
TableConfigs ==
    {CheckboxConfig("table", buildOptionsWithSeparators(t[1], t[2]), t[1], 0, 0, {}) :
        t \in UNION {{<<n, s>> : s \in TableSeparators(n)} :
                        n \in (MaxTableData - 1)..MaxTableData}}

\* from the call to state.stdin.on('data', onData): the selection and cursor
\* are initialized, the terminal too, and render() runs once
CheckboxShow ==
    /\ cb.pc = "config"
    /\ initTerminal
    /\ LET sel == SelectableOf(cb.options)
           first == IF cb.variant = "basic" \/ 0 \in sel \/ sel = {} THEN 0
                    ELSE CHOOSE i \in sel : \A j \in sel : i <= j
       IN  cb' = CheckboxRender([cb EXCEPT !.pc = "open",
                                           !.selected = cb.defaultSelected,
                                           !.was = cb.defaultSelected,
                                           !.cursorIndex = first,
                                           !.listening = TRUE,
                                           !.isRawMode = TRUE])
    /\ UNCHANGED <<smRest, sessionVars, vsVars, hmVars, clVars, rs>>

CheckboxKeys == {"space", "up", "down", "a", "i"}

\* Space: the selection after toggling the option under the cursor
Toggle(c) ==
    LET index == IF c.variant = "table" THEN originalIndex(c.options, c.cursorIndex)
                 ELSE c.cursorIndex
    IN  IF c.variant # "basic" /\ c.cursorIndex \notin SelectableOf(c.options)
        THEN c.selected
        ELSE IF index \in c.selected THEN c.selected \ {index}
        ELSE IF c.maxSelections = 0 \/ Cardinality(c.selected) < c.maxSelections
             THEN c.selected \cup {index}
        ELSE c.selected

\* an arrow key
MoveCursor(c, direction) ==
    IF c.variant = "basic"
    THEN (IF direction = "up"
          THEN (IF c.cursorIndex > 0 THEN c.cursorIndex - 1 ELSE Len(c.options) - 1)
          ELSE (IF c.cursorIndex < Len(c.options) - 1 THEN c.cursorIndex + 1 ELSE 0))
    ELSE getNextSelectableIndex(Len(c.options), SelectableOf(c.options),
                                c.cursorIndex, direction)

\* the indices A and I range over
Selectables(c) ==
    IF c.variant = "basic" THEN 0..(Len(c.options) - 1)
    ELSE IF c.variant = "menu" THEN SelectableOf(c.options)
    ELSE 0..(c.data - 1)

\* the A key
SelectAll(c) ==
    IF c.variant = "table"
    THEN (IF Cardinality(c.selected) = c.data THEN {}
          ELSE IF c.maxSelections = 0 THEN c.selected \cup Selectables(c)
          ELSE c.selected \cup TakeFirst(Selectables(c) \ c.selected,
                                         c.maxSelections - Cardinality(c.selected)))
    ELSE (IF c.maxSelections = 0 \/ c.maxSelections >= Cardinality(Selectables(c))
          THEN c.selected \cup Selectables(c)
          ELSE c.selected)

\* the I key
Invert(c) ==
    IF c.maxSelections = 0 THEN Selectables(c) \ c.selected
    ELSE TakeFirst(Selectables(c) \ c.selected, c.maxSelections)

\* onData for Space, an arrow key, A or I, with the render() that follows
CheckboxKey(key) ==
    /\ cb.pc = "open"
    /\ LET selected == IF key = "space" THEN Toggle(cb)
                       ELSE IF key = "a" THEN SelectAll(cb)
                       ELSE IF key = "i" THEN Invert(cb)
                       ELSE cb.selected
           cursor == IF key \in {"up", "down"} THEN MoveCursor(cb, key)
                     ELSE cb.cursorIndex
       IN  cb' = CheckboxRender([cb EXCEPT !.selected = selected,
                                           !.cursorIndex = cursor,
                                           !.was = cb.selected,
                                           !.key = key])
    /\ UNCHANGED <<smVars, sessionVars, vsVars, hmVars, clVars, rs>>

\* onData for Enter: ignored below minSelections, else the listener is
\* removed, the terminal restored and the promise resolved
CheckboxEnter ==
    /\ cb.pc = "open"
    /\ IF Cardinality(cb.selected) < cb.minSelections
       THEN /\ cb' = [cb EXCEPT !.key = "return", !.was = cb.selected]
            /\ UNCHANGED <<out, term>>
       ELSE /\ restoreTerminal
            /\ cb' = [cb EXCEPT !.pc = "resolved", !.key = "return",
                                !.was = cb.selected, !.listening = FALSE,
                                !.isRawMode = FALSE]
    /\ UNCHANGED <<smRest, sessionVars, vsVars, hmVars, clVars, rs>>

\* onData for Ctrl+C: cleanup and process.exit(0)
CheckboxCtrlC ==
    /\ cb.pc = "open"
    /\ restoreTerminal
    /\ cb' = [cb EXCEPT !.pc = "exited", !.key = "ctrl-c", !.was = cb.selected,
                        !.listening = FALSE, !.isRawMode = FALSE]
    /\ UNCHANGED <<smRest, sessionVars, vsVars, hmVars, clVars, rs>>

InitCB ==
    /\ NewScreenManager
    /\ NewHintManager
    /\ NoSession
    /\ vsIn = NoVS
    /\ vsOut = NoResult
    /\ rs = NoRS
    /\ cb \in CheckboxConfigs

NextCB ==
    \/ CheckboxShow
    \/ \E key \in CheckboxKeys : CheckboxKey(key)
    \/ CheckboxEnter
    \/ CheckboxCtrlC

SpecCB == InitCB /\ [][NextCB]_vars

\* showCheckboxTableMenu on a table that scrolls, moved by the arrow keys
InitTW ==
    /\ NewScreenManager
    /\ NewHintManager
    /\ NoSession
    /\ vsIn = NoVS
    /\ vsOut = NoResult
    /\ rs = NoRS
    /\ cb \in TableConfigs

NextTW ==
    \/ CheckboxShow
    \/ \E key \in {"up", "down"} : CheckboxKey(key)

SpecTW == InitTW /\ [][NextTW]_vars

(***************************************************************************)
(* Properties of the ScreenManager (checked under SpecSM)                  *)
(***************************************************************************)
Blank(w) == [k \in 1..w |-> " "]

\* the last call was a renderRegion / clearRegion that did not throw
Rendered(c) == c.op = "renderRegion" /\ ~c.err
Cleared(c)  == c.op = "clearRegion" /\ ~c.err

\* offset i (1-based) of a region's cache holds exactly the line ln
PrevIs(prev, i, ln) == i <= Len(prev) /\ prev[i] = ln

CacheOf(c, id) == IF id \in DOMAIN c THEN c[id] ELSE <<>>

\* screen row r shows line ln from column c on: writing ln there changes nothing
RowShows(g, r, c, ln) == PutCells(g, r, c, TermVisible(ln)) = g

\* the operations of o that move the cursor to row r
MovesTo(o, r) == {k \in 1..Len(o) : o[k].k = "moveTo" /\ o[k].row = r}

\* o positions the cursor at (r, c) exactly once and writes ln right after
WritesOnce(o, r, c, ln) ==
    /\ Cardinality(MovesTo(o, r)) = 1
    /\ \A k \in MovesTo(o, r) :
         o[k] = MoveTo(r, c) /\ k < Len(o) /\ o[k + 1] = Write(ln)

\* o writes every offset of rect, the lines of next, and nothing else
WritesAll(o, rect, next) ==
    /\ Len(o) = 2 * rect.height
    /\ \A i \in 1..rect.height : WritesOnce(o, rect.top + i - 1, rect.left, next[i])

\* C1: immediately after renderRegion(id, L) returns, every screen row
\* top + i of the rect registered for id shows the normalized line L[i]
C1_DiffCorrectness ==
    Rendered(last) =>
        \A i \in 1..last.rect.height :
            RowShows(Shown(term), last.rect.top + i - 1, last.rect.left,
                     NormLines(last.lines, last.rect)[i])

\* C2: renderRegion moves to (top + i, left) and writes once for each offset
\* whose normalized line differs from the cached line, touches no other
\* offset, and a directly repeated call with identical content writes nothing
C2_DiffMinimality ==
    [][ Rendered(last') =>
          LET rect == last'.rect
              prev == CacheOf(cache, last'.id)
              next == NormLines(last'.lines, rect)
              diff == {i \in 1..rect.height : ~PrevIs(prev, i, next[i])}
          IN  /\ Len(out') = 2 * Cardinality(diff)
              /\ \A i \in diff :
                     WritesOnce(out', rect.top + i - 1, rect.left, next[i])
              /\ \A i \in (1..rect.height) \ diff :
                     MovesTo(out', rect.top + i - 1) = {}
              /\ (Rendered(last) /\ last'.id = last.id /\ last'.lines = last.lines)
                     => out' = <<>>
      ]_vars

\* witness of C2: a render that rewrote some lines of the region and skipped others
C2_Witness ==
    /\ Rendered(last)
    /\ Rendered(before) /\ before.id = last.id
    /\ out # <<>>
    /\ Len(out) < 2 * last.rect.height

\* a line without style sequences
Unstyled(ln) == \A k \in 1..Len(ln) : ln[k] # ESC

\* ln right-padded with spaces or cut to w characters
PadOrCut(ln, w) == [k \in 1..w |-> IF k <= Len(ln) THEN ln[k] ELSE " "]

LineAt(lines, i) == IF i <= Len(lines) THEN lines[i] ELSE <<>>

\* C3: after renderRegion the cache of id holds rect.height entries, entry i
\* being lines[i] (or the empty line) padded or cut to rect.width when it has
\* no style sequence, whether or not the line was written; a render on an
\* empty cache writes all rect.height lines
C3_CacheReplaced ==
    [][ Rendered(last') =>
          LET rect == last'.rect
              id   == last'.id
          IN  /\ id \in DOMAIN cache'
              /\ Len(cache'[id]) = rect.height
              /\ \A i \in 1..rect.height :
                     Unstyled(LineAt(last'.lines, i)) =>
                         cache'[id][i] = PadOrCut(LineAt(last'.lines, i), rect.width)
              /\ id \notin DOMAIN cache => WritesAll(out', rect, cache'[id])
      ]_vars

\* witness of C3: a first paint with fewer lines than the region is high, one
\* of them cut to the width of the region
C3_Witness ==
    /\ Rendered(last)
    /\ Len(last.lines) < last.rect.height
    /\ Len(out) = 2 * last.rect.height
    /\ \E i \in 1..Len(last.lines) :
         Unstyled(last.lines[i]) /\ Len(last.lines[i]) # last.rect.width

\* C4: every line a renderRegion or clearRegion call stores in the cache has
\* a visible length (style sequences not counted) of exactly rect.width
C4_CacheLineWidth ==
    (Rendered(last) \/ Cleared(last)) =>
        \A i \in 1..Len(cache[last.id]) :
            Len(StripAnsi(cache[last.id][i])) = last.rect.width

\* C5: renderRegion and clearRegion on an unregistered id report an error,
\* write nothing and leave the region table and every cache unchanged
C5_UnregisteredFails ==
    [][ (last'.op \in {"renderRegion", "clearRegion"} /\ last'.id \notin DOMAIN regions) =>
          /\ last'.err
          /\ out' = <<>>
          /\ UNCHANGED <<regions, cache, term, isAltScreen>>
      ]_vars

\* witness of C5: a failed call while another region is registered and cached
C5_Witness ==
    /\ last.op \in {"renderRegion", "clearRegion"}
    /\ last.err
    /\ DOMAIN cache # {}

\* C6: clearRegion writes rect.width spaces on every row of the region and
\* caches rect.height blank lines; a renderRegion of the same id that follows
\* directly writes exactly the offsets whose normalized line is not blank
C6_ClearErases ==
    [][ /\ Cleared(last') =>
            LET rect == last'.rect
                blanks == [i \in 1..rect.height |-> Blank(rect.width)]
            IN  /\ WritesAll(out', rect, blanks)
                /\ last'.id \in DOMAIN cache' /\ cache'[last'.id] = blanks
                /\ \A i \in 1..rect.height :
                       RowCells(Shown(term'), rect.top + i - 1, rect.left, rect.width)
                           = Blank(rect.width)
        /\ (Cleared(last) /\ Rendered(last') /\ last'.id = last.id) =>
            LET rect == last'.rect
                next == NormLines(last'.lines, rect)
                nonblank == {i \in 1..rect.height : next[i] # Blank(rect.width)}
            IN  /\ Len(out') = 2 * Cardinality(nonblank)
                /\ \A i \in nonblank :
                       WritesOnce(out', rect.top + i - 1, rect.left, next[i])
      ]_vars

\* witness of C6: a render right after a clear that left a blank offset unwritten
C6_Witness ==
    /\ Rendered(last)
    /\ Cleared(before) /\ before.id = last.id
    /\ out # <<>>
    /\ \E i \in 1..last.rect.height :
         /\ cache[last.id][i] = Blank(last.rect.width)
         /\ MovesTo(out, last.rect.top + i - 1) = {}

\* C7: invalidateAll drops every cache and keeps every registration; the
\* renderRegion that follows writes all rect.height lines of its region
C7_InvalidateAll ==
    [][ /\ last'.op = "invalidateAll" =>
            cache' = EmptyMap /\ regions' = regions /\ out' = <<>>
        /\ (last.op = "invalidateAll" /\ Rendered(last')) =>
            WritesAll(out', last'.rect, NormLines(last'.lines, last'.rect))
      ]_vars

\* witness of C7: caches existed, were dropped, and the region is repainted in full
C7_Witness ==
    /\ Rendered(last)
    /\ before.op = "invalidateAll"
    /\ ncalls >= 4
    /\ Len(out) = 2 * last.rect.height
    /\ \E i \in 1..last.rect.height :
         NormLines(last.lines, last.rect)[i] = Blank(last.rect.width)

\* C8: enter emits alternate-buffer-enable and cursor-hide only when not in the
\* alternate screen, exit emits cursor-show and alternate-buffer-disable only
\* when in it, and a call in the requested state emits and changes nothing
C8_EnterExitIdempotent ==
    [][ /\ last'.op = "enter" =>
            /\ isAltScreen' /\ term'.alt /\ ~term'.cursorVisible
            /\ IF isAltScreen
               THEN out' = <<>> /\ UNCHANGED <<isAltScreen, term, regions, cache>>
               ELSE out' = <<AltEnable, CursorHide>>
        /\ last'.op = "exit" =>
            /\ ~isAltScreen' /\ ~term'.alt /\ term'.cursorVisible
            /\ IF isAltScreen
               THEN out' = <<CursorShow, AltDisable>>
               ELSE out' = <<>> /\ UNCHANGED <<isAltScreen, term, regions, cache>>
      ]_vars

\* witness of C8: enter called while already in the alternate screen
C8_Witness ==
    /\ last.op = "enter"
    /\ before.op = "enter"
    /\ out = <<>>
    /\ isAltScreen

(***************************************************************************)
(* Properties of calculateVirtualScroll (checked under SpecVS)             *)
(***************************************************************************)
\* the call returned a window for a non-empty sequence and a valid cursor
Returned == vsOut.called /\ ~vsOut.error /\ Len(vsIn.items) > 0

CursorCost == getItemLineCount(vsIn.items, vsIn.cursorIndex)

C10_CursorIncluded ==
    Returned =>
        /\ 0 <= vsOut.visibleStart
        /\ vsOut.visibleStart <= vsIn.cursorIndex
        /\ vsIn.cursorIndex < vsOut.visibleEnd
        /\ vsOut.visibleEnd <= Len(vsIn.items)

\* witness of C10: a scrolled window with the cursor strictly inside it
C10_Witness ==
    /\ Returned
    /\ vsOut.isScrolled
    /\ vsOut.visibleStart < vsIn.cursorIndex
    /\ vsIn.cursorIndex + 1 < vsOut.visibleEnd
    /\ vsOut.hasItemsBefore /\ vsOut.hasItemsAfter

\* the call returned a result (it did not throw)
Answered == vsOut.called /\ ~vsOut.error

\* C11: when the sum of all line costs is <= targetLines the result is the
\* full range [0, items.length), actualLines is that sum and isScrolled is false
C11_Completeness ==
    (Returned /\ SumFrom(vsIn.items, 1) <= vsIn.targetLines) =>
        /\ vsOut.visibleStart = 0
        /\ vsOut.visibleEnd = Len(vsIn.items)
        /\ vsOut.actualLines = SumFrom(vsIn.items, 1)
        /\ ~vsOut.isScrolled

\* witness of C11: several items of different cost that exactly fill the
\* budget, with the cursor on the last one
C11_Witness ==
    /\ Returned
    /\ ~vsOut.isScrolled
    /\ vsOut.actualLines = vsIn.targetLines
    /\ Len(vsIn.items) >= 3
    /\ vsIn.cursorIndex = Len(vsIn.items) - 1
    /\ \E i \in 1..Len(vsIn.items) : vsIn.items[i] # vsIn.items[1]

\* C12: in every result hasItemsBefore = (visibleStart > 0), hasItemsAfter =
\* (visibleEnd < items.length), and either flag implies isScrolled
C12_Flags ==
    Answered =>
        /\ vsOut.hasItemsBefore = (vsOut.visibleStart > 0)
        /\ vsOut.hasItemsAfter = (vsOut.visibleEnd < Len(vsIn.items))
        /\ (vsOut.hasItemsBefore \/ vsOut.hasItemsAfter) => vsOut.isScrolled

\* witness of C12: a window that ends at the last item and hides items before it
C12_Witness ==
    /\ Answered
    /\ vsOut.hasItemsBefore
    /\ ~vsOut.hasItemsAfter
    /\ vsOut.visibleEnd = Len(vsIn.items)

EmptyWindow ==
    [visibleStart |-> 0, visibleEnd |-> 0, actualLines |-> 0,
     isScrolled |-> FALSE, hasItemsBefore |-> FALSE, hasItemsAfter |-> FALSE,
     error |-> FALSE, called |-> TRUE]

CursorValid == 0 <= vsIn.cursorIndex /\ vsIn.cursorIndex < Len(vsIn.items)

\* C13: an empty sequence gives the empty window for any cursorIndex; a
\* non-empty sequence with cursorIndex outside [0, items.length) gives an
\* out-of-bounds error and no window
C13_EmptyAndBounds ==
    vsOut.called =>
        /\ Len(vsIn.items) = 0 => vsOut = EmptyWindow
        /\ (Len(vsIn.items) > 0 /\ ~CursorValid) => vsOut.error
        /\ (Len(vsIn.items) > 0 /\ CursorValid) => ~vsOut.error

\* witness of C13: a cursor one past the last item of a sequence that needs scrolling
C13_Witness ==
    /\ vsOut.called
    /\ vsOut.error
    /\ vsIn.cursorIndex = Len(vsIn.items)
    /\ SumFrom(vsIn.items, 1) > vsIn.targetLines

UnitCosts == \A i \in 1..Len(vsIn.items) : vsIn.items[i] = 1

FinalPassExtends(o) ==
    /\ Len(o.items) > 0
    /\ 0 <= o.cursorIndex /\ o.cursorIndex < Len(o.items)
    /\ SumFrom(o.items, 1) > o.targetLines
    /\ WindowAfterUp(o).visibleEnd < calculateVirtualScroll(o).visibleEnd

\* C15 as stated: there are inputs for which the window after the first
\* downward and the upward pass is strictly smaller than the returned window
C15_FinalPassExtends ==
    vsOut.called => \E o \in VSInputs : FinalPassExtends(o)

\* C15 as amended: the final downward pass never changes the window; the
\* returned window is the window after the first downward and the upward pass
C15_FinalPassIdle ==
    (Returned /\ vsOut.isScrolled) =>
        /\ vsOut.visibleStart = WindowAfterUp(vsIn).visibleStart
        /\ vsOut.visibleEnd = WindowAfterUp(vsIn).visibleEnd
        /\ vsOut.actualLines = WindowAfterUp(vsIn).currentLines

\* witness of C15: cursor on the first item, budget left over and items below
C15_Witness ==
    /\ Returned /\ vsOut.isScrolled
    /\ vsIn.cursorIndex = 0
    /\ vsOut.actualLines < vsIn.targetLines
    /\ vsOut.hasItemsAfter
    /\ vsOut.visibleEnd >= 2

\* C16: whenever isScrolled is true, actualLines is targetLines, whatever the
\* cursor position and the line costs (stated for sequences in which every
\* single item fits targetLines)
C16_StableHeight ==
    (/\ Returned /\ vsOut.isScrolled
     /\ \A i \in 1..Len(vsIn.items) : vsIn.items[i] <= vsIn.targetLines) =>
        vsOut.actualLines = vsIn.targetLines

\* sum of the line costs of the 0-based items from..to-1
LinesOf(items, from, to) == SumFrom(SubSeq(items, from + 1, to), 1)

RECURSIVE MaxCostOf(_, _)
MaxCostOf(items, i) ==
    IF i > Len(items) THEN 0
    ELSE LET m == MaxCostOf(items, i + 1)
         IN  IF items[i] > m THEN items[i] ELSE m

Abs(x) == IF x < 0 THEN 0 - x ELSE x

\* C17: when scrolling is active and at least targetLines lines of items
\* exist both before and after the cursor, the visible lines before and after
\* the cursor differ by at most the cost of one item
C17_CenteredCursor ==
    (/\ Returned /\ vsOut.isScrolled
     /\ LinesOf(vsIn.items, 0, vsIn.cursorIndex) >= vsIn.targetLines
     /\ LinesOf(vsIn.items, vsIn.cursorIndex + 1, Len(vsIn.items)) >= vsIn.targetLines) =>
        Abs(LinesOf(vsIn.items, vsOut.visibleStart, vsIn.cursorIndex)
            - LinesOf(vsIn.items, vsIn.cursorIndex + 1, vsOut.visibleEnd))
          <= MaxCostOf(vsIn.items, 1)

\* the result for the cursor one item further down
NextCursorResult == calculateVirtualScroll([vsIn EXCEPT !.cursorIndex = vsIn.cursorIndex + 1])

\* cursor positions c and c + 1 are both valid and both give a scrolled window
StepScrolled ==
    /\ Returned /\ vsOut.isScrolled
    /\ vsIn.cursorIndex + 1 < Len(vsIn.items)
    /\ NextCursorResult.isScrolled

BoundariesWithinOne ==
    /\ Abs(NextCursorResult.visibleStart - vsOut.visibleStart) <= 1
    /\ Abs(NextCursorResult.visibleEnd - vsOut.visibleEnd) <= 1

\* C18 as stated: when every item cost is <= targetLines, the windows for the
\* cursor positions c and c + 1 differ by at most one item at each boundary
C18_NoJitter ==
    (StepScrolled /\ \A i \in 1..Len(vsIn.items) : vsIn.items[i] <= vsIn.targetLines) =>
        BoundariesWithinOne

\* C18 as amended: the same, for sequences whose items all have the same cost
C18_NoJitterUniform ==
    (/\ StepScrolled
     /\ \A i \in 1..Len(vsIn.items) :
          vsIn.items[i] <= vsIn.targetLines /\ vsIn.items[i] = vsIn.items[1]) =>
        BoundariesWithinOne

\* witness of C18: items of cost 2, a window of two items that moves down by
\* one item with the cursor
C18_Witness ==
    /\ StepScrolled
    /\ \A i \in 1..Len(vsIn.items) : vsIn.items[i] = 2
    /\ vsOut.visibleEnd - vsOut.visibleStart = 2
    /\ NextCursorResult.visibleStart = vsOut.visibleStart + 1
    /\ NextCursorResult.visibleEnd = vsOut.visibleEnd + 1

(***************************************************************************)
(* Properties of the HintManager (checked under SpecHM)                    *)
(***************************************************************************)
HintCalled(op) == hmLast.op = op

\* the entries of greatest priority
TopPriority(es) ==
    {i \in 1..Len(es) : \A j \in 1..Len(es) : es[j].priority <= es[i].priority}

\* the entry of greatest priority that was set last
MostRecentTop(es) ==
    CHOOSE i \in TopPriority(es) : \A j \in TopPriority(es) : es[j].order <= es[i].order

OnePerToken(es) ==
    \A i, j \in 1..Len(es) : es[i].token = es[j].token => i = j

\* C19: at most one entry per token; current() is '' without entries, and
\* otherwise the text of the entry of greatest priority, among equal greatest
\* priorities the one whose set call happened most recently, however close
\* in time the set calls were
C19_CurrentMostRecent ==
    /\ OnePerToken(entries)
    /\ current(entries) =
           IF entries = <<>> THEN "" ELSE entries[MostRecentTop(entries)].text

\* C20: a set emits exactly one notification, clear emits one exactly when
\* the token had an entry, clearAll emits one exactly when there was an
\* entry; the payload is what current() returns after the mutation
C20_Notifies ==
    [][ /\ HintCalled("set")' => emitted' = <<current(entries')>>
        /\ HintCalled("clear")' =>
               IF HasToken(entries, hmLast'.token)
               THEN /\ emitted' = <<current(entries')>>
                    /\ ~HasToken(entries', hmLast'.token)
               ELSE emitted' = <<>> /\ entries' = entries
        /\ HintCalled("clearAll")' =>
               IF entries # <<>>
               THEN emitted' = <<current(entries')>> /\ entries' = <<>>
               ELSE emitted' = <<>> /\ entries' = entries
      ]_vars

\* a clear of a token without entry, while another token has one, stayed silent
C20_Witness ==
    /\ HintCalled("clear")
    /\ emitted = <<>>
    /\ entries # <<>>
    /\ ~HasToken(entries, hmLast.token)

(***************************************************************************)
(* Properties of computeLayout (checked under SpecCL)                      *)
(***************************************************************************)
LayoutReturned == clOut # NoLayout

LayoutRects(l) == <<l.header, l.main, l.footerHints, l.footerPrompt>>

\* the rects follow each other without overlap or gap
Stacked(l) ==
    /\ l.header.top = 1
    /\ \A k \in 1..3 :
          LayoutRects(l)[k + 1].top = LayoutRects(l)[k].top + LayoutRects(l)[k].height

\* the screen rows a rect occupies
RowsOf(r) == r.top .. (r.top + r.height - 1)

\* C22: for rows >= 1 and cols >= 1, computeLayout(rows, cols) returns four
\* rects with left 1 and width cols, stacked from row 1 without overlap or
\* gap, of heights 13, max(1, rows - 15), 1 and 1; for rows >= 16 they cover
\* exactly the rows 1..rows
C22_Layout ==
    (LayoutReturned /\ clIn.rows >= 1 /\ clIn.cols >= 1) =>
        /\ \A k \in 1..4 : /\ LayoutRects(clOut)[k].left = 1
                           /\ LayoutRects(clOut)[k].width = clIn.cols
        /\ Stacked(clOut)
        /\ clOut.header.height = 13
        /\ clOut.footerHints.height = 1
        /\ clOut.footerPrompt.height = 1
        /\ clOut.main.height = Max(1, clIn.rows - 15)
        /\ clIn.rows >= 16 =>
              /\ UNION {RowsOf(LayoutRects(clOut)[k]) : k \in 1..4} = 1..clIn.rows
              /\ \A j, k \in 1..4 :
                    j # k => RowsOf(LayoutRects(clOut)[j]) \cap RowsOf(LayoutRects(clOut)[k]) = {}

\* witness of C22: a terminal with room for a main area of several rows, the
\* prompt on its last row
C22_Witness ==
    /\ LayoutReturned
    /\ clIn.cols >= 1
    /\ clIn.rows >= 17
    /\ clOut.main.height = clIn.rows - 15
    /\ clOut.footerPrompt.top = clIn.rows

(***************************************************************************)
(* Properties of renderPageV2 (checked under SpecPG)                       *)
(***************************************************************************)
\* this step is a call of renderRegion
RenderRegionCalled == ncalls' = ncalls + 1 /\ last'.op = "renderRegion"

\* this step runs a 'change' listener
ListenerRan == pc = "emit" /\ nidx' = nidx + 1

HintsId == hintsComponent(config)[1].regionId

\* the writes of o stay within the rows of rect
WritesWithin(o, rect) ==
    \A k \in 1..Len(o) : o[k].k = "moveTo" => o[k].row \in RowsOf(rect)

\* C21: when the footer holds a component of type 'hints', after every hint
\* change notification the cache of that component's region is the
\* normalized single line current(), and no other region is repainted
C21_HintRepaint ==
    [][(ListenerRan /\ hintsComponent(config) # <<>>) =>
          /\ HintsId \in DOMAIN regions
          /\ CacheOf(cache', HintsId) =
                 NormLines(<<Units(current(entries))>>, regions[HintsId])
          /\ WritesWithin(out', regions[HintsId])
          /\ \A id \in (DOMAIN cache \cup DOMAIN cache') \ {HintsId} :
                CacheOf(cache', id) = CacheOf(cache, id)
      ]_vars

\* witness of C21: the listener has put the hint of the second option on the
\* hints row after a move of the selection
C21_Witness ==
    /\ pc = "wait"
    /\ hintsComponent(config) # <<>>
    /\ current(entries) = "Selected: b"
    /\ last.op = "renderRegion" /\ last.id = HintsId /\ ~last.err
    /\ before.op = "renderRegion" /\ before.id = "main"
    /\ out # <<>>
    /\ cache[HintsId] = NormLines(<<Units("Selected: b")>>, regions[HintsId])

\* the components of all areas
Configured == {config.header[k] : k \in 1..Len(config.header)}
              \cup {config.mainArea[k] : k \in 1..Len(config.mainArea)}
              \cup {config.footer[k] : k \in 1..Len(config.footer)}

\* the rect of a component in the layout l
RectIn(c, l) ==
    IF \E k \in 1..Len(config.header) : config.header[k] = c THEN l.header
    ELSE IF \E k \in 1..Len(config.mainArea) : config.mainArea[k] = c THEN l.main
    ELSE IF c.type = "hints" THEN l.footerHints
    ELSE l.footerPrompt

\* C23: after a resize event each component's region is registered with its
\* rect of the new layout and its cache holds the freshly rendered lines
C23_ResizeRepaints ==
    [][stdout' # stdout =>
          \A c \in Configured :
             /\ c.regionId \in DOMAIN regions'
             /\ regions'[c.regionId] = RectIn(c, computeLayout(0, 0))'
             /\ CacheOf(cache', c.regionId) =
                    NormLines(Render(c, RectIn(c, computeLayout(0, 0)))',
                              RectIn(c, computeLayout(0, 0))')
      ]_vars

\* the positions of log with an event of kind ev
At(ev) == {p \in 1..Len(log) : log[p].ev = ev}

Slot(area, k) == [area |-> area, k |-> k]

SlotOf(e) == Slot(e.area, e.k)

\* the places of the configured components
Slots == {Slot("header", k) : k \in 1..Len(config.header)}
         \cup {Slot("mainArea", k) : k \in 1..Len(config.mainArea)}
         \cup {Slot("footer", k) : k \in 1..Len(config.footer)}

\* C24: when an interact handler starts, every configured component has
\* been rendered and its renderRegion call has completed
C24_PaintBeforeInteract ==
    \A p \in At("start") :
       \A s \in Slots : \E q \in At("paint") : q < p /\ SlotOf(log[q]) = s

\* witness of C24: a page of three or more components whose first handler
\* has started
C24_Witness ==
    /\ At("start") # {}
    /\ Cardinality(Slots) >= 3
    /\ Cardinality(At("paint")) = Cardinality(Slots)

Rank(area) == IF area = "header" THEN 1 ELSE IF area = "mainArea" THEN 2 ELSE 3

\* e comes before f in the order header, main, footer, list order within
Precedes(e, f) ==
    \/ Rank(e.area) < Rank(f.area)
    \/ e.area = f.area /\ e.k < f.k

InOrder(ev) == \A p, q \in At(ev) : p < q => Precedes(log[p], log[q])

ComponentAt(s) ==
    IF s.area = "header" THEN config.header[s.k]
    ELSE IF s.area = "mainArea" THEN config.mainArea[s.k]
    ELSE config.footer[s.k]

\* C25: components are painted in the order header, main, footer; the
\* interact handlers run in the same order, each starting only after the
\* previous one has completed, and only components that declare one have one
C25_FixedOrder ==
    /\ InOrder("paint")
    /\ InOrder("start")
    /\ \A p, q \in At("start") :
          p < q => \E r \in At("end") : p < r /\ r < q /\ SlotOf(log[r]) = SlotOf(log[p])
    /\ \A p \in At("start") : ComponentAt(SlotOf(log[p])).interact # "none"
    /\ pc = "returned" =>
          \A s \in Slots : ComponentAt(s).interact # "none" =>
                              \E p \in At("end") : SlotOf(log[p]) = s

\* witness of C25: a page with two interactive components has returned
C25_Witness ==
    /\ pc = "returned"
    /\ Cardinality(At("start")) = 2
    /\ Cardinality(At("end")) = 2
    /\ Cardinality(At("paint")) = 3

\* C26: after the registration step every configured component's regionId
\* is registered, and painting never raises an unregistered-region error
C26_AllRegistered ==
    /\ pc \notin {"enter", "register"} =>
          \A c \in Configured : c.regionId \in DOMAIN regions
    /\ pc # "threw"

\* C27: when renderPageV2 has returned, the alternate screen is left and the
\* cursor is visible; from enter() to that point the alternate screen is
\* active
C27_ExitOnReturn ==
    /\ pc = "returned" =>
          ~isAltScreen /\ ~term.alt /\ term.cursorVisible
    /\ (pc \in {"register", "paint", "interact", "wait", "hint", "resolve"}
        \/ (pc = "emit" /\ ret # "returned")) =>
          isAltScreen /\ term.alt

\* witness of C27: the last handler completed and exit() restored the screen
C27_Witness ==
    /\ pc = "returned"
    /\ At("end") # {}
    /\ last.op = "exit"
    /\ out = <<CursorShow, AltDisable>>
    /\ ~term.alt

\* C28: when the process terminates after Ctrl+C in the radio menu, the
\* alternate screen has been left and the cursor is visible
C28_TerminateRestores ==
    pc = "terminated" => ~isAltScreen /\ ~term.alt /\ term.cursorVisible

\* an interact handler is running
Phase2 ==
    /\ pc \in {"wait", "hint", "emit"}
    /\ ~(pc = "emit" /\ ret = "returned")

\* C29 as stated: in phase 2 every renderRegion call targets the region of
\* the component whose interact handler is running
C29_OwnRegionOnly ==
    [][(Phase2 /\ RenderRegionCalled) => last'.id = Interacting.c.regionId]_vars

\* C29 as amended: in phase 2 a renderRegion call is either made by the
\* running interact handler for its own region, or by the hint change
\* listener for the region of the footer's hints component
C29_OwnOrHints ==
    [][(Phase2 /\ RenderRegionCalled) =>
          \/ pc = "wait" /\ last'.id = Interacting.c.regionId
          \/ /\ pc = "emit"
             /\ hintsComponent(config) # <<>>
             /\ last'.id = HintsId
      ]_vars

\* witness of C29: the radio menu has repainted its region after a key
C29_Witness ==
    /\ pc = "hint"
    /\ last.op = "renderRegion" /\ last.id = "main" /\ ~last.err
    /\ selectedIndex # 0
    /\ out # <<>>

\* C30 (checked under SpecSM): a renderRegion call for a region that was
\* registered and then removed by reset completes without an error, writes
\* nothing and leaves the caches unchanged
C30_DroppedSilently ==
    [][(/\ RenderRegionCalled
        /\ last.op = "reset"
        /\ before.op = "registerRegion" /\ before.id = last'.id) =>
          /\ ~last'.err
          /\ out' = <<>>
          /\ cache' = cache
          /\ term' = term
      ]_vars

(***************************************************************************)
(* More properties of calculateVirtualScroll (checked under SpecVS)        *)
(***************************************************************************)
\* C38: a scrolled window cannot be extended by its neighbour on either
\* side: the item after it, and the item before it, would exceed targetLines
C38_Maximal ==
    (Returned /\ vsOut.isScrolled) =>
        /\ vsOut.hasItemsAfter =>
              vsOut.actualLines + getItemLineCount(vsIn.items, vsOut.visibleEnd)
                  > vsIn.targetLines
        /\ vsOut.hasItemsBefore =>
              vsOut.actualLines + getItemLineCount(vsIn.items, vsOut.visibleStart - 1)
                  > vsIn.targetLines

\* witness of C38: a window with items on both sides, each too large for
\* the lines that are left
C38_Witness ==
    /\ Returned /\ vsOut.isScrolled
    /\ vsOut.hasItemsAfter /\ vsOut.hasItemsBefore
    /\ vsOut.actualLines < vsIn.targetLines
    /\ vsOut.visibleEnd - vsOut.visibleStart >= 2

(***************************************************************************)
(* Cache and screen (checked under SpecSM)                                 *)
(***************************************************************************)
\* the rects of two different ids share no cell
Disjoint(rects) ==
    \A a, b \in DOMAIN rects :
       a # b => \/ RowsOf(rects[a]) \cap RowsOf(rects[b]) = {}
                \/ rects[a].left + rects[a].width <= rects[b].left
                \/ rects[b].left + rects[b].width <= rects[a].left

\* the row of offset i of region id shows the cached line and blanks after it
ShowsCached(id, i) ==
    RowCells(Shown(term), regions[id].top + i - 1, regions[id].left, regions[id].width)
        = PadOrCut(TermVisible(cache[id][i]), regions[id].width)

\* C35: with pairwise disjoint rects, each id registered once and the
\* alternate screen entered before the first paint and never left, every
\* region that has a cache entry shows on each of its rows exactly the cached
\* line of that row
C35_Coherence ==
    (steady /\ isAltScreen /\ Disjoint(regions)) =>
        \A id \in DOMAIN cache \cap DOMAIN regions :
           \A i \in 1..Len(cache[id]) : ShowsCached(id, i)


(***************************************************************************)
(* Properties of the page session and of the V2 radio menu (checked under  *)
(* SpecPG)                                                                 *)
(***************************************************************************)
\* the writes of a renderRegion call that paints every line of its region
PaintsAll(c) == RenderWrites_NoDiff(c.rect, <<>>, NormLines(c.lines, c.rect), 1)

\* C31: when renderPageV2 has returned, no region and no cache remains in the
\* screen manager, and every renderRegion call of the first paint of a page
\* writes every line of its region
C31_RegionsDestroyed ==
    [][/\ (pc' = "returned" => DOMAIN regions' = {} /\ DOMAIN cache' = {})
       /\ ((pc = "paint" /\ RenderRegionCalled /\ ~last'.err) =>
              out' = PaintsAll(last'))
      ]_vars

\* this step is onKey handling the key
KeyPressed(key) ==
    /\ pc = "wait"
    /\ nevents' = nevents + 1
    /\ hmCalls' = hmCalls
    /\ lastKey' = key

\* C34: in the V2 radio menu, DOWN on the last selectable option selects the
\* first selectable option and UP on the first selects the last
C34_WrapAround ==
    [][LET sel == selectableIndices(config.options)
           currentPos == IndexOf(sel, selectedIndex)
       IN  /\ (KeyPressed("down") /\ currentPos = Len(sel) - 1) =>
                  selectedIndex' = sel[1]
           /\ (KeyPressed("up") /\ currentPos = 0) =>
                  selectedIndex' = sel[Len(sel)]
      ]_vars

\* C36: when renderPageV2 has finished, by returning or by an error that
\* reaches the caller, the alternate screen has been left and the cursor is
\* visible
C36_NeverLeftEntered ==
    pc \in {"returned", "threw"} =>
        ~isAltScreen /\ ~term.alt /\ term.cursorVisible

\* C37: after renderPageV2 has returned a hint change writes nothing to the
\* terminal, and at most one page listener is attached to the hint manager
C37_ListenerRemoved ==
    [][/\ Len(hintListeners') <= 1
       /\ (ListenerRan /\ ret = "returned") =>
              /\ term' = term
              /\ (RenderRegionCalled => out' = <<>>)
      ]_vars

\* C39: while the V2 radio menu waits for a key, selectedIndex is the index
\* of a selectable option, and the result of Enter has an index among the
\* selectable options and the value of that option
C39_SelectionValid ==
    LET sel == selectableIndices(config.options)
    IN  /\ (pc = "wait" /\ Interacting.c.interact = "menu") =>
               \E i \in 1..Len(sel) : sel[i] = selectedIndex
        /\ result.given =>
               /\ result.index \in 0..(Len(sel) - 1)
               /\ result.value = OptionValue(config.options, sel[result.index + 1])


(***************************************************************************)
(* Properties of waitForRadioMenuInput (checked under SpecRS)              *)
(***************************************************************************)
\* the process has ended after Ctrl+C, by process.exit or by the error that
\* left the key handler
SplitEnded == rs.key = "ctrl-c" /\ rs.pc \in {"exited", "threw"}

\* C32: when the process ends after Ctrl+C, the key listener has been
\* removed, the region of the menu has been cleared, raw mode is off and the
\* cursor is shown
C32_CleanupBeforeExit ==
    SplitEnded =>
        /\ ~rs.listening
        /\ last.op = "clearRegion" /\ last.id = SplitRegionId /\ ~last.err
        /\ ~rs.isRawMode
        /\ term.cursorVisible


(***************************************************************************)
(* Properties of the checkbox menus (C33 checked under SpecTW, C40 under   *)
(* SpecCB)                                                                 *)
(***************************************************************************)
\* C33: whenever the table is scrolled, the lines render writes for the
\* visible items are as many as the window calculation counted for them
\* with getItemLineCount, and no more than 30
C33_WrittenAsCounted ==
    (cb.pc = "open" /\ cb.win.scrolled) =>
        /\ cb.win.written = cb.win.currentLines
        /\ cb.win.written <= TARGET_LINES

\* C40: with maxSelections = M > 0 no more than M items are selected after
\* any key, Enter resolves the menu only with at least minSelections items
\* selected, and an Enter below minSelections leaves the menu open with its
\* selection unchanged
C40_SelectionLimits ==
    /\ (cb.maxSelections > 0 /\ cb.pc \in {"open", "resolved"}) =>
           Cardinality(cb.selected) <= cb.maxSelections
    /\ cb.pc = "resolved" => Cardinality(cb.selected) >= cb.minSelections
    /\ (cb.key = "return" /\ cb.pc = "open") =>
           /\ Cardinality(cb.selected) < cb.minSelections
           /\ cb.selected = cb.was
           /\ cb.listening

====
